---- MODULE Spec2Model ----
(***************************************************************************)
(* TechMart analytics backend: fraud scoring, the transaction pipeline     *)
(* that persists scores and alerts, and the request rate limiter.          *)
(*                                                                         *)
(* Units.  Money is counted in cents (total_amount 15000.00 is 1500000).   *)
(* fraudScore and risk_score are counted in hundredths (0.5 is 50).        *)
(* Transaction timestamps and the pipeline clock are minutes of local      *)
(* time; the rate limiter clock is milliseconds.                           *)
(***************************************************************************)
EXTENDS Integers, Sequences, FiniteSets, TLC

VARIABLES
    scoreInput,     \* arguments of one analyzeTransaction call
    scoreResult,    \* what that call returned
    now,            \* Date.now() of the server, minutes
    transactions,   \* Transaction table, id = index
    alerts,         \* Alert table
    customers,      \* Customer table
    products,       \* Product table
    wsOpen,         \* wsServer.clients whose readyState is OPEN
    sent,           \* messages delivered by client.send
    lastCall,       \* the last finished scoring operation and its outcome
    rlNow,          \* Date.now() seen by the rate limiter, milliseconds
    rateLimitStore, \* Map key -> {count, resetTime}
    rlLog,          \* responses of the rate limiter, oldest first
    rlHeap,         \* the entry objects {count, resetTime} the limiter has created
    rlMap,          \* rateLimitStore as a Map key -> entry object
    rlReqs,         \* requests inside the limiter middleware: position and locals
    rlRunning,      \* the request whose callback is on the call stack, or 0
    cNow,           \* Date.now() seen by the cache, milliseconds
    cache,          \* NodeCache data: key -> {v, t}
    cacheStats,     \* {hits, misses, sets}
    cReqs,          \* requests between the cache middleware and their response
    cLog,           \* what the last cache operation did and returned
    cLastSet,       \* per key, the last set that no delete has undone since
    invProducts,    \* Product table read by the inventory service
    invSales,       \* units sold in the last 30 days, per product id
    invResult,      \* the last generateReorderSuggestions call
    rfmInput,       \* customers with their completed transactions
    rfmResult,      \* what performRFMAnalysis returned
    segInput,       \* the scores <<r, f, m>> passed to assignSegment
    segResult,      \* what assignSegment returned
    churnInput,     \* per customer, the timestamps of the completed transactions
    churnResult,    \* what identifyChurnRisk returned
    posts,          \* the POST /api/transactions handlers that have started: position and locals
    predInput,      \* the product and its sales per day that predictStockLevels reads
    predResult,     \* what predictStockLevels returned
    rlUnswept,      \* the store the same requests leave when the sweep never runs
    rlUnsweptLog,   \* the responses of the limiter over rlUnswept
    rlSwept,        \* the entries the sweep has deleted, with their key
    wcWs,           \* this.ws of the client service: a socket, or 0 for null
    wcSockets,      \* every WebSocket the service has created and its readyState
    wcAttempts,     \* this.reconnectAttempts
    wcTimers,       \* setTimeout callbacks of attemptReconnect that have not run yet
    wcDisconnected  \* disconnect() was called and connect() has not been called since

scoreVars == <<scoreInput, scoreResult>>
txVars == <<now, transactions, alerts, customers, products, wsOpen, sent, lastCall>>
rlVars == <<rlNow, rateLimitStore, rlLog>>
rlcVars == <<rlHeap, rlMap, rlReqs, rlRunning>>
cacheVars == <<cNow, cache, cacheStats, cReqs, cLog, cLastSet>>
invVars == <<invProducts, invSales, invResult>>
rfmVars == <<rfmInput, rfmResult>>
segVars == <<segInput, segResult>>
churnVars == <<churnInput, churnResult>>
postsVars == <<posts>>
predictVars == <<predInput, predResult>>
sweepVars == <<rlUnswept, rlUnsweptLog, rlSwept>>
wcVars == <<wcWs, wcSockets, wcAttempts, wcTimers, wcDisconnected>>
otherThanScore ==
    <<txVars, rlVars, rlcVars, cacheVars, invVars, rfmVars, segVars, churnVars, postsVars,
      predictVars, sweepVars, wcVars>>
otherThanTx ==
    <<scoreVars, rlVars, rlcVars, cacheVars, invVars, rfmVars, segVars, churnVars,
      postsVars, predictVars, sweepVars, wcVars>>
otherThanRl ==
    <<scoreVars, txVars, cacheVars, invVars, rfmVars, segVars, churnVars, postsVars,
      predictVars, sweepVars, wcVars>>
otherThanCache ==
    <<scoreVars, txVars, rlVars, rlcVars, invVars, rfmVars, segVars, churnVars, postsVars,
      predictVars, sweepVars, wcVars>>
otherThanInv ==
    <<scoreVars, txVars, rlVars, rlcVars, cacheVars, rfmVars, segVars, churnVars,
      postsVars, predictVars, sweepVars, wcVars>>
otherThanRfm ==
    <<scoreVars, txVars, rlVars, rlcVars, cacheVars, invVars, segVars, churnVars,
      postsVars, predictVars, sweepVars, wcVars>>
otherThanSeg ==
    <<scoreVars, txVars, rlVars, rlcVars, cacheVars, invVars, rfmVars, churnVars,
      postsVars, predictVars, sweepVars, wcVars>>
otherThanChurn ==
    <<scoreVars, txVars, rlVars, rlcVars, cacheVars, invVars, rfmVars, segVars, postsVars,
      predictVars, sweepVars, wcVars>>
otherThanPosts ==
    <<scoreVars, rlVars, rlcVars, cacheVars, invVars, rfmVars, segVars, churnVars,
      predictVars, sweepVars, wcVars>>
otherThanPredict ==
    <<scoreVars, txVars, rlVars, rlcVars, cacheVars, invVars, rfmVars, segVars, churnVars,
      postsVars, sweepVars, wcVars>>
otherThanSweep ==
    <<scoreVars, txVars, rlcVars, cacheVars, invVars, rfmVars, segVars, churnVars,
      postsVars, predictVars, wcVars>>
otherThanWc ==
    <<scoreVars, txVars, rlVars, rlcVars, cacheVars, invVars, rfmVars, segVars, churnVars,
      postsVars, predictVars, sweepVars>>
vars ==
    <<scoreVars, txVars, rlVars, rlcVars, cacheVars, invVars, rfmVars, segVars, churnVars,
      postsVars, predictVars, sweepVars, wcVars>>

Min(a, b) == IF a <= b THEN a ELSE b
Max(a, b) == IF a >= b THEN a ELSE b

(***************************************************************************)
(* FraudDetectionService.THRESHOLDS                                        *)
(***************************************************************************)
HIGH_AMOUNT == 5000
VELOCITY_WINDOW_MINUTES == 10
VELOCITY_MAX_TRANSACTIONS == 5
AMOUNT_DEVIATION_MULTIPLIER == 3
SUSPICIOUS_HOURS_START == 2
SUSPICIOUS_HOURS_END == 5
MAX_VALID_AMOUNT == 10000
\* MIN_VALID_AMOUNT is 0.01 dollars, one cent
MIN_VALID_AMOUNT_CENTS == 1

Cents(dollars) == dollars * 100

\* customer argument of the scoring functions when the customer is null
NullCustomer == [exists |-> FALSE, total_spent |-> 0, risk_score |-> 0]

\* Number.prototype.toFixed(2) of an amount held in cents
toFixed2(c) ==
    LET a == IF c < 0 THEN 0 - c ELSE c
        frac == a % 100
    IN  (IF c < 0 THEN "-" ELSE "") \o ToString(a \div 100) \o "."
        \o (IF frac < 10 THEN "0" ELSE "") \o ToString(frac)

\* (amount / avgSpent).toFixed(1), avgSpent given as ten times its value in cents
ratioFixed1(amount, avgSpent10) ==
    IF avgSpent10 = 0 THEN "Infinity"
    ELSE LET tenths == (200 * amount + avgSpent10) \div (2 * avgSpent10)
         IN  ToString(tenths \div 10) \o "." \o ToString(tenths % 10)

NotSuspicious == [suspicious |-> FALSE]

\* checkAmountAnomaly with the deviation test moved ahead of the absolute limits
checkAmountAnomalyDeviationFirst(transaction, customer) ==
    LET amount == transaction.total_amount
        avgSpent10 == IF customer.exists THEN customer.total_spent
                      ELSE 10 * Cents(500)
    IN  IF 10 * amount > avgSpent10 * AMOUNT_DEVIATION_MULTIPLIER THEN
            [type |-> "amount_deviation", suspicious |-> TRUE, score |-> 25,
             message |-> "Transaction amount $" \o toFixed2(amount) \o " is "
                         \o ratioFixed1(amount, avgSpent10) \o "x the customer average"]
        ELSE IF amount > Cents(MAX_VALID_AMOUNT) THEN
            [type |-> "amount_exceeds_limit", suspicious |-> TRUE, score |-> 40,
             message |-> "Transaction amount $" \o toFixed2(amount)
                         \o " exceeds maximum limit of $" \o ToString(MAX_VALID_AMOUNT)]
        ELSE IF amount < MIN_VALID_AMOUNT_CENTS THEN
            [type |-> "amount_too_low", suspicious |-> TRUE, score |-> 20,
             message |-> "Transaction amount $" \o toFixed2(amount) \o " is below minimum"]
        ELSE IF amount > Cents(HIGH_AMOUNT) THEN
            [type |-> "high_value", suspicious |-> TRUE, score |-> 15,
             message |-> "High-value transaction of $" \o toFixed2(amount)]
        ELSE NotSuspicious

\* checkAmountAnomaly(transaction, customer); avgSpent is kept times ten
\* (total_spent / 10, or 500 dollars) so that the division stays exact
checkAmountAnomaly(transaction, customer) ==
    LET amount == transaction.total_amount
        avgSpent10 == IF customer.exists THEN customer.total_spent
                      ELSE 10 * Cents(500)
    IN  IF amount > Cents(MAX_VALID_AMOUNT) THEN
            [type |-> "amount_exceeds_limit", suspicious |-> TRUE, score |-> 40,
             message |-> "Transaction amount $" \o toFixed2(amount)
                         \o " exceeds maximum limit of $" \o ToString(MAX_VALID_AMOUNT)]
        ELSE IF amount < MIN_VALID_AMOUNT_CENTS THEN
            [type |-> "amount_too_low", suspicious |-> TRUE, score |-> 20,
             message |-> "Transaction amount $" \o toFixed2(amount) \o " is below minimum"]
        ELSE IF 10 * amount > avgSpent10 * AMOUNT_DEVIATION_MULTIPLIER THEN
            [type |-> "amount_deviation", suspicious |-> TRUE, score |-> 25,
             message |-> "Transaction amount $" \o toFixed2(amount) \o " is "
                         \o ratioFixed1(amount, avgSpent10) \o "x the customer average"]
        ELSE IF amount > Cents(HIGH_AMOUNT) THEN
            [type |-> "high_value", suspicious |-> TRUE, score |-> 15,
             message |-> "High-value transaction of $" \o toFixed2(amount)]
        ELSE NotSuspicious

\* checkVelocity, the part after the Transaction.count query has answered
checkVelocityResult(recentTransactions) ==
    IF recentTransactions >= VELOCITY_MAX_TRANSACTIONS THEN
        [type |-> "velocity_exceeded", suspicious |-> TRUE, score |-> 30,
         message |-> ToString(recentTransactions) \o " transactions in the last "
                     \o ToString(VELOCITY_WINDOW_MINUTES) \o " minutes"]
    ELSE NotSuspicious

\* Date.getHours() of a timestamp in minutes
getHours(timestamp) == (timestamp \div 60) % 24

checkTimePattern(timestamp) ==
    LET hour == getHours(timestamp)
    IN  IF hour >= SUSPICIOUS_HOURS_START /\ hour <= SUSPICIOUS_HOURS_END THEN
            [type |-> "unusual_time", suspicious |-> TRUE, score |-> 15,
             message |-> "Transaction at unusual hour (" \o ToString(hour) \o ":00)"]
        ELSE NotSuspicious

checkCustomerRisk(customer) ==
    IF ~customer.exists THEN
        [type |-> "unknown_customer", suspicious |-> TRUE, score |-> 20,
         message |-> "Transaction from unknown customer"]
    ELSE IF customer.risk_score >= 70 THEN
        [type |-> "high_risk_customer", suspicious |-> TRUE, score |-> 25,
         message |-> "Customer has high risk score (" \o ToString(customer.risk_score) \o "%)"]
    ELSE NotSuspicious

\* botPatterns of checkForBot, each tested case-insensitively
botPatterns == {"bot", "crawler", "spider", "curl", "wget", "python", "java/", "php"}

\* A user agent is its text and the lower-case fragments the text contains;
\* text "" is the missing (falsy) user agent.
checkForBot(userAgent) ==
    IF userAgent.text = "" THEN
        [type |-> "missing_user_agent", suspicious |-> TRUE, score |-> 15,
         message |-> "Missing user agent"]
    ELSE IF \E pattern \in botPatterns : pattern \in userAgent.contains THEN
        [type |-> "bot_detected", suspicious |-> TRUE, score |-> 20,
         message |-> "Request appears to be from automated system"]
    ELSE NotSuspicious

getSeverity(fraudScore) ==
    IF fraudScore >= 80 THEN "critical"
    ELSE IF fraudScore >= 60 THEN "high"
    ELSE IF fraudScore >= 40 THEN "medium"
    ELSE "low"

\* flags.push(check) when check.suspicious
pushIf(flags, check) == IF check.suspicious THEN Append(flags, check) ELSE flags

RECURSIVE sumScores(_)
sumScores(flags) ==
    IF flags = <<>> THEN 0 ELSE flags[1].score + sumScores(Tail(flags))

\* the division by 100 without the clamp
normalizeUnclamped(points) == points

\* Math.min(fraudScore / 100, 1), in hundredths
normalize(points) == Min(points, 100)

\* analyzeTransaction running the bot check before the customer risk check
analyzeTransactionBotBeforeRisk(transaction, customer, recentTransactions) ==
    LET flags1 == pushIf(<<>>, checkAmountAnomaly(transaction, customer))
        flags2 == pushIf(flags1, checkVelocityResult(recentTransactions))
        flags3 == pushIf(flags2, checkTimePattern(transaction.timestamp))
        flags4 == pushIf(flags3, checkForBot(transaction.user_agent))
        flags5 == pushIf(flags4, checkCustomerRisk(customer))
        fraudScore == normalize(sumScores(flags5))
    IN  [fraudScore |-> fraudScore,
         flags |-> flags5,
         isSuspicious |-> fraudScore >= 50,
         severity |-> getSeverity(fraudScore)]

\* analyzeTransaction(transaction, customer) once checkVelocity has returned
\* recentTransactions from its count query
analyzeTransaction(transaction, customer, recentTransactions) ==
    LET flags1 == pushIf(<<>>, checkAmountAnomaly(transaction, customer))
        flags2 == pushIf(flags1, checkVelocityResult(recentTransactions))
        flags3 == pushIf(flags2, checkTimePattern(transaction.timestamp))
        flags4 == pushIf(flags3, checkCustomerRisk(customer))
        flags5 == pushIf(flags4, checkForBot(transaction.user_agent))
        fraudScore == normalize(sumScores(flags5))
    IN  [fraudScore |-> fraudScore,
         flags |-> flags5,
         isSuspicious |-> fraudScore >= 50,
         severity |-> getSeverity(fraudScore)]

(***************************************************************************)
(* Scoring one transaction: the arguments are drawn from bounded sets and  *)
(* analyzeTransaction is applied to them.                                  *)
(***************************************************************************)
MaxVelocityCount == 6

ScoreAmounts == {0 - 500, 0, 1, 100000, 150000, 150001, 500000, 500001,
                 1000000, 1000001, 1500000}
ScoreCustomers ==
    {NullCustomer} \cup
    [exists : {TRUE}, total_spent : {0, 1000000, 50000000}, risk_score : {20, 69, 70}]
ScoreTimestamps == {119, 120, 359, 360}
UserAgents ==
    {[text |-> "", contains |-> {}],
     [text |-> "Mozilla/5.0", contains |-> {}],
     [text |-> "curl/7.68.0", contains |-> {"curl"}],
     [text |-> "Googlebot/2.1", contains |-> {"bot"}]}
Browser == [text |-> "Mozilla/5.0", contains |-> {}]

NoScoreResult == [done |-> FALSE]
IdleScoreInput ==
    [transaction |-> [total_amount |-> 100000, timestamp |-> 119, user_agent |-> Browser],
     customer |-> NullCustomer, recentTransactions |-> 0]

ScoreInit ==
    /\ scoreInput \in [transaction : [total_amount : ScoreAmounts,
                                      timestamp : ScoreTimestamps,
                                      user_agent : UserAgents],
                       customer : ScoreCustomers,
                       recentTransactions : {0, 4, 5, MaxVelocityCount}]
    /\ scoreResult = NoScoreResult

ScoreIdle ==
    /\ scoreInput = IdleScoreInput
    /\ scoreResult = NoScoreResult

\* one call of analyzeTransaction on the drawn arguments
Score ==
    /\ ~scoreResult.done
    /\ scoreResult' = [done |-> TRUE,
                       analysis |-> analyzeTransaction(scoreInput.transaction,
                                                       scoreInput.customer,
                                                       scoreInput.recentTransactions)]
    /\ UNCHANGED <<scoreInput, otherThanScore>>

(***************************************************************************)
(* The transaction pipeline: POST /api/transactions, the CSV importer and  *)
(* analyzeExistingTransactions, over the Transaction, Alert, Customer and  *)
(* Product tables.                                                         *)
(***************************************************************************)
StartTime == 119        \* the clock starts at 01:59 local time
CsvAge == 60            \* age of the historical timestamps of the CSV, minutes
NumClients == 1
MaxWrites == 2
ANALYZE_LIMIT == 1000

ClientIds == 1..NumClients

InitCustomers ==
    (1 :> [total_spent |-> 100000, risk_score |-> 20]) @@
    (2 :> [total_spent |-> 0, risk_score |-> 80])
InitProducts ==
    (1 :> [price |-> 1000, stock_quantity |-> 8]) @@
    (2 :> [price |-> 600000, stock_quantity |-> 2])

\* what the awaits of one request can reject on
Faults == {"none", "velocity", "update", "alert", "send", "stock", "spent", "reload"}
\* the faults the pipeline is run under
TxFaults == {"none", "velocity", "update", "send", "stock"}

\* what is kept of a finished operation: its outcome, not its working state
Outcome(rq) ==
    [op |-> rq.op, txid |-> rq.txid, fault |-> rq.fault, analysis |-> rq.analysis,
     status |-> rq.status, threw |-> rq.threw]

NoAnalysis == [done |-> FALSE]

DB == [transactions |-> transactions, alerts |-> alerts, customers |-> customers,
       products |-> products, sent |-> sent]

\* Customer.findByPk(id) as the customer argument of the scoring functions
findCustomer(db, id) ==
    IF id \in DOMAIN db.customers
    THEN [exists |-> TRUE, total_spent |-> db.customers[id].total_spent,
          risk_score |-> db.customers[id].risk_score]
    ELSE NullCustomer

\* Transaction.count({where: {customer_id, timestamp: {[Op.gte]: windowStart}}})
\* with windowStart = Date.now() - VELOCITY_WINDOW_MINUTES minutes
countRecent(txs, customerId, t) ==
    Cardinality({i \in DOMAIN txs :
                    /\ txs[i].customer_id = customerId
                    /\ txs[i].timestamp >= t - VELOCITY_WINDOW_MINUTES})

\* flags.map(f => f.message).join('; ')
RECURSIVE joinMessages(_)
joinMessages(flags) ==
    IF flags = <<>> THEN ""
    ELSE IF Len(flags) = 1 THEN flags[1].message
    ELSE flags[1].message \o "; " \o joinMessages(Tail(flags))

\* the object passed as transaction to analyzeTransaction
scoredFields(row) ==
    [total_amount |-> row.total_amount, timestamp |-> row.timestamp,
     user_agent |-> row.user_agent]

\* the update adding the new flags to the flags the row already has
updateFraudAppending(row, analysis) ==
    [row EXCEPT !.fraud_score = analysis.fraudScore,
                !.fraud_flags = @ \o analysis.flags,
                !.writes = @ + 1]

\* transaction.update({fraud_score, fraud_flags: JSON.stringify(flags)});
\* the stored JSON text is represented by the list it denotes
updateFraud(row, analysis) ==
    [row EXCEPT !.fraud_score = analysis.fraudScore,
                !.fraud_flags = analysis.flags,
                !.writes = @ + 1]

\* the update issued on the table with the customer as its where clause
persistFraudByCustomer(txs, txid, analysis) ==
    [i \in DOMAIN txs |->
        IF txs[i].customer_id = txs[txid].customer_id THEN updateFraud(txs[i], analysis)
        ELSE txs[i]]

\* the update is issued on the instance: it reaches the row of that id only
persistFraud(txs, txid, analysis) ==
    [txs EXCEPT ![txid] = updateFraud(@, analysis)]

fraudAlert(title, txid, row, analysis) ==
    [type |-> "fraud", severity |-> analysis.severity, title |-> title,
     message |-> joinMessages(analysis.flags),
     transaction_id |-> txid, customer_id |-> row.customer_id,
     fraudScore |-> analysis.fraudScore]

\* FraudDetectionService.broadcast: client.send for every OPEN client
broadcast(db, open, alertId) ==
    [db EXCEPT !.sent = @ \cup {[client |-> c, type |-> "FRAUD_ALERT", alert |-> alertId]
                                 : c \in open}]

Goto(db, rq, pc) == [db |-> db, rq |-> [rq EXCEPT !.pc = pc]]
\* res.status(code).json(...) and return
Reply(db, rq, code) == [db |-> db, rq |-> [rq EXCEPT !.pc = "done", !.status = code]]
\* an await rejects: the handler's catch answers 500
Throw(db, rq, step) ==
    [db |-> db, rq |-> [rq EXCEPT !.pc = "done", !.status = 500, !.threw = step]]

NewPost(cid, pid, q, ua, fault) ==
    [op |-> "post", pc |-> "findCustomer", customer_id |-> cid, product_id |-> pid,
     quantity |-> q, user_agent |-> ua, fault |-> fault,
     customer |-> NullCustomer, product |-> [price |-> 0, stock_quantity |-> 0],
     total_amount |-> 0, txid |-> 0, analysis |-> NoAnalysis,
     status |-> 0, threw |-> "none"]

\* router.post('/'): the code between two awaits, from position rq.pc
PostStep(db, rq, t, open) ==
    CASE rq.pc = "findCustomer" ->
            IF rq.customer_id \notin DOMAIN db.customers THEN Reply(db, rq, 404)
            ELSE Goto(db, [rq EXCEPT !.customer = findCustomer(db, rq.customer_id)],
                      "findProduct")
      [] rq.pc = "findProduct" ->
            IF rq.product_id \notin DOMAIN db.products THEN Reply(db, rq, 404)
            ELSE LET product == db.products[rq.product_id]
                     subtotal == product.price * rq.quantity
                     tax_amount == (subtotal * 8) \div 100
                     total_amount == subtotal + tax_amount
                 IN  IF product.stock_quantity < rq.quantity THEN Reply(db, rq, 400)
                     ELSE IF total_amount < MIN_VALID_AMOUNT_CENTS
                             \/ total_amount > Cents(MAX_VALID_AMOUNT)
                          THEN Reply(db, rq, 400)
                     ELSE Goto(db, [rq EXCEPT !.product = product,
                                              !.total_amount = total_amount],
                               "create")
      [] rq.pc = "create" ->
            LET row == [customer_id |-> rq.customer_id, product_id |-> rq.product_id,
                        quantity |-> rq.quantity, total_amount |-> rq.total_amount,
                        status |-> "completed", user_agent |-> rq.user_agent,
                        timestamp |-> t, fraud_score |-> 0, fraud_flags |-> <<>>,
                        writes |-> 0, origin |-> "post"]
            IN  Goto([db EXCEPT !.transactions = Append(@, row)],
                     [rq EXCEPT !.txid = Len(db.transactions) + 1], "analyze")
      [] rq.pc = "analyze" ->
            IF rq.fault = "velocity" THEN Throw(db, rq, "velocity")
            ELSE LET row == db.transactions[rq.txid]
                     recent == countRecent(db.transactions, row.customer_id, t)
                 IN  Goto(db, [rq EXCEPT !.analysis =
                                  [done |-> TRUE, recentTransactions |-> recent] @@
                                  analyzeTransaction(scoredFields(row), rq.customer, recent)],
                          "update")
      [] rq.pc = "update" ->
            IF rq.fault = "update" THEN Throw(db, rq, "update")
            ELSE Goto([db EXCEPT !.transactions = persistFraud(@, rq.txid, rq.analysis)],
                      rq, IF rq.analysis.isSuspicious THEN "alert" ELSE "stock")
      [] rq.pc = "alert" ->
            \* createFraudAlert: Alert.create, then the broadcast
            IF rq.fault = "alert" THEN Throw(db, rq, "alert")
            ELSE LET alert == fraudAlert("Suspicious Transaction Detected", rq.txid,
                                         db.transactions[rq.txid], rq.analysis)
                     db2 == [db EXCEPT !.alerts = Append(@, alert)]
                 IN  IF open # {} /\ rq.fault = "send" THEN Throw(db2, rq, "send")
                     ELSE Goto(broadcast(db2, open, Len(db2.alerts)), rq, "stock")
      [] rq.pc = "stock" ->
            IF rq.fault = "stock" THEN Throw(db, rq, "stock")
            ELSE Goto([db EXCEPT !.products[rq.product_id].stock_quantity =
                                     rq.product.stock_quantity - rq.quantity],
                      rq, "spent")
      [] rq.pc = "spent" ->
            IF rq.fault = "spent" THEN Throw(db, rq, "spent")
            ELSE Goto([db EXCEPT !.customers[rq.customer_id].total_spent =
                                     rq.customer.total_spent + rq.total_amount],
                      rq, "reload")
      [] rq.pc = "reload" ->
            IF rq.fault = "reload" THEN Throw(db, rq, "reload")
            ELSE Reply(db, rq, 201)

\* the handler run from rq.pc to its response without interruption
RECURSIVE RunPost(_, _, _, _)
RunPost(db, rq, t, open) ==
    IF rq.pc = "done" THEN [db |-> db, rq |-> rq]
    ELSE LET next == PostStep(db, rq, t, open)
         IN  RunPost(next.db, next.rq, t, open)

\* importTransactions: the body of the loop for one CSV row
ImportRun(db, csv, t) ==
    LET row == [customer_id |-> csv.customer_id, product_id |-> csv.product_id,
                quantity |-> csv.quantity, total_amount |-> csv.total_amount,
                status |-> "completed", user_agent |-> csv.user_agent,
                timestamp |-> csv.timestamp, fraud_score |-> 0, fraud_flags |-> <<>>,
                writes |-> 0, origin |-> "import"]
        txid == Len(db.transactions) + 1
        db1 == [db EXCEPT !.transactions = Append(@, row)]
        customer == findCustomer(db1, row.customer_id)
        recent == countRecent(db1.transactions, row.customer_id, t)
        analysis == [done |-> TRUE, recentTransactions |-> recent] @@
                    analyzeTransaction(scoredFields(row), customer, recent)
        db2 == [db1 EXCEPT !.transactions = persistFraud(@, txid, analysis)]
        alert == fraudAlert("Suspicious Transaction #" \o ToString(txid), txid, row, analysis)
        db3 == IF analysis.isSuspicious THEN [db2 EXCEPT !.alerts = Append(@, alert)]
               ELSE db2
    IN  [db |-> db3,
         rq |-> [op |-> "import", txid |-> txid, fault |-> "none", analysis |-> analysis,
                 status |-> 0, threw |-> "none"]]

\* rows a run of analyzeExistingTransactions can have updated: a prefix of the
\* rows by timestamp DESC (ties in any order), all of the first ANALYZE_LIMIT
\* rows unless an await rejected on the way
IsPrefixByTimestampDesc(txs, S) ==
    /\ S \subseteq DOMAIN txs
    /\ Cardinality(S) <= ANALYZE_LIMIT
    /\ \A i \in S : \A j \in DOMAIN txs \ S : txs[i].timestamp >= txs[j].timestamp

\* analyzeExistingTransactions, having re-scored and updated the rows of S
AnalyzeExistingRun(db, S, t) ==
    LET analysisOf(i) ==
            LET row == db.transactions[i]
                recent == countRecent(db.transactions, row.customer_id, t)
            IN  [done |-> TRUE, recentTransactions |-> recent] @@
                analyzeTransaction(scoredFields(row), findCustomer(db, row.customer_id),
                                   recent)
        analyses == [i \in S |-> analysisOf(i)]
        complete == Cardinality(S) = Min(Len(db.transactions), ANALYZE_LIMIT)
    IN  [db |-> [db EXCEPT !.transactions =
                    [i \in DOMAIN db.transactions |->
                        IF i \in S THEN persistFraud(db.transactions, i, analyses[i])[i]
                        ELSE db.transactions[i]]],
         rq |-> [op |-> "analyzeExisting", processed |-> S, analyses |-> analyses,
                 results |-> {i \in S : analyses[i].isSuspicious},
                 threw |-> IF complete THEN "none" ELSE "query"]]

TxInit ==
    /\ now = StartTime
    /\ transactions = <<>>
    /\ alerts = <<>>
    /\ customers = InitCustomers
    /\ products = InitProducts
    /\ wsOpen = {}
    /\ sent = {}
    /\ lastCall = [op |-> "none", threw |-> "none", alertsBefore |-> 0]

Commit(out) ==
    /\ transactions' = out.db.transactions
    /\ alerts' = out.db.alerts
    /\ customers' = out.db.customers
    /\ products' = out.db.products
    /\ sent' = out.db.sent
    /\ lastCall' = [alertsBefore |-> Len(alerts)] @@ out.rq

\* POST /api/transactions
Post(cid, pid, q, ua, fault, cap) ==
    /\ Len(transactions) < cap
    /\ LET out == RunPost(DB, NewPost(cid, pid, q, ua, fault), now, wsOpen)
       IN  Commit([db |-> out.db, rq |-> Outcome(out.rq)])
    /\ UNCHANGED <<now, wsOpen, otherThanTx>>

\* the importer handles one row of transactions.csv
ImportRow(csv, cap) ==
    /\ Len(transactions) < cap
    /\ Commit(ImportRun(DB, csv, now))
    /\ UNCHANGED <<now, wsOpen, otherThanTx>>

\* one call of analyzeExistingTransactions
AnalyzeExisting(S, cap) ==
    /\ transactions # <<>>
    /\ IsPrefixByTimestampDesc(transactions, S)
    /\ \A i \in S : transactions[i].writes < cap
    /\ Commit(AnalyzeExistingRun(DB, S, now))
    /\ UNCHANGED <<now, wsOpen, otherThanTx>>

\* time passes
Tick(horizon) ==
    /\ now < StartTime + horizon
    /\ now' = now + 1
    /\ UNCHANGED <<transactions, alerts, customers, products, wsOpen, sent, lastCall,
                   otherThanTx>>

\* wss.on('connection'): a dashboard client joins wsServer.clients
WsConnect(c) ==
    /\ c \notin wsOpen
    /\ wsOpen' = wsOpen \cup {c}
    /\ UNCHANGED <<now, transactions, alerts, customers, products, sent, lastCall,
                   otherThanTx>>

\* the client's socket closes
WsClose(c) ==
    /\ c \in wsOpen
    /\ wsOpen' = wsOpen \ {c}
    /\ UNCHANGED <<now, transactions, alerts, customers, products, sent, lastCall,
                   otherThanTx>>

(***************************************************************************)
(* POST /api/transactions handlers that are in flight together: a handler  *)
(* gives up the call stack at each await, and another handler may run.     *)
(***************************************************************************)
MaxPosts == 2

PostIds == 1..MaxPosts

IdlePost == [NewPost(0, 0, 0, Browser, "none") EXCEPT !.pc = "idle"]

PostsIdle == posts = [r \in PostIds |-> IdlePost]

\* a request reaches the handler: the code up to the first await
PostArrive(r, cid, pid, q) ==
    /\ posts[r].pc = "idle"
    /\ \A k \in 1..(r - 1) : posts[k].pc # "idle"
    /\ posts' = [posts EXCEPT ![r] = NewPost(cid, pid, q, Browser, "none")]
    /\ UNCHANGED <<txVars, otherThanPosts>>

\* the handler of request r runs from one await to the next
PostAdvance(r) ==
    /\ posts[r].pc \notin {"idle", "done"}
    /\ LET out == PostStep(DB, posts[r], now, wsOpen)
       IN  /\ posts' = [posts EXCEPT ![r] = out.rq]
           /\ transactions' = out.db.transactions
           /\ alerts' = out.db.alerts
           /\ customers' = out.db.customers
           /\ products' = out.db.products
           /\ sent' = out.db.sent
    /\ UNCHANGED <<now, wsOpen, lastCall, otherThanPosts>>

(***************************************************************************)
(* The rate limiter middleware and the periodic sweep of its store.        *)
(***************************************************************************)
WindowMs == 2000        \* option windowMs of the limiter under test
MaxRequests == 3        \* option maxRequests of the limiter under test
TickMs == 500
MaxRlNow == 3000
MaxCalls == 5

RlKeys == {"10.0.0.1", "10.0.0.2"}

\* Math.ceil(x / d)
ceilDiv(x, d) == 0 - ((0 - x) \div d)

\* the limiter rejecting from the call that reaches maxRequests
rateLimiterRejectsAtMax(store, key, t) ==
    LET fresh == key \notin DOMAIN store \/ t > store[key].resetTime
        opened == IF fresh THEN [count |-> 0, resetTime |-> t + WindowMs]
                  ELSE store[key]
        entry == [opened EXCEPT !.count = @ + 1]
        rejected == entry.count >= MaxRequests
    IN  [store |-> [k \in DOMAIN store \cup {key} |->
                        IF k = key THEN entry ELSE store[k]],
         response |-> [key |-> key, time |-> t,
                       status |-> IF rejected THEN 429 ELSE 200,
                       admitted |-> ~rejected,
                       limit |-> MaxRequests,
                       remaining |-> Max(0, MaxRequests - entry.count),
                       reset |-> entry.resetTime,
                       retryAfter |-> IF rejected
                                      THEN ceilDiv(entry.resetTime - t, 1000)
                                      ELSE 0]]

\* the limiter moving the end of the window at every call
rateLimiterSlidingWindow(store, key, t) ==
    LET fresh == key \notin DOMAIN store \/ t > store[key].resetTime
        opened == [count |-> IF fresh THEN 0 ELSE store[key].count,
                   resetTime |-> t + WindowMs]
        entry == [opened EXCEPT !.count = @ + 1]
        rejected == entry.count > MaxRequests
    IN  [store |-> [k \in DOMAIN store \cup {key} |->
                        IF k = key THEN entry ELSE store[k]],
         response |-> [key |-> key, time |-> t,
                       status |-> IF rejected THEN 429 ELSE 200,
                       admitted |-> ~rejected,
                       limit |-> MaxRequests,
                       remaining |-> Max(0, MaxRequests - entry.count),
                       reset |-> entry.resetTime,
                       retryAfter |-> IF rejected
                                      THEN ceilDiv(entry.resetTime - t, 1000)
                                      ELSE 0]]

\* the middleware returned by rateLimiter(options) handling a request of key at
\* time t: the new store and what the response carries
rateLimiter(store, key, t) ==
    LET fresh == key \notin DOMAIN store \/ t > store[key].resetTime
        opened == IF fresh THEN [count |-> 0, resetTime |-> t + WindowMs]
                  ELSE store[key]
        entry == [opened EXCEPT !.count = @ + 1]
        rejected == entry.count > MaxRequests
    IN  [store |-> [k \in DOMAIN store \cup {key} |->
                        IF k = key THEN entry ELSE store[k]],
         response |-> [key |-> key, time |-> t,
                       status |-> IF rejected THEN 429 ELSE 200,
                       admitted |-> ~rejected,
                       limit |-> MaxRequests,
                       remaining |-> Max(0, MaxRequests - entry.count),
                       reset |-> entry.resetTime,
                       retryAfter |-> IF rejected
                                      THEN ceilDiv(entry.resetTime - t, 1000)
                                      ELSE 0]]

\* the sweep deleting the entries whose window ends at the time of the sweep too
sweepAtEnd(store, t) ==
    [k \in {x \in DOMAIN store : ~(t >= store[x].resetTime)} |-> store[k]]

\* the setInterval callback: delete the entries whose window has ended
sweep(store, t) ==
    [k \in {x \in DOMAIN store : ~(t > store[x].resetTime)} |-> store[k]]

RlInit ==
    /\ rlNow = 0
    /\ rateLimitStore = << >>
    /\ rlLog = << >>

\* a request of client key passes through the limiter
RlRequest(key) ==
    /\ Len(rlLog) < MaxCalls
    /\ LET out == rateLimiter(rateLimitStore, key, rlNow)
       IN  /\ rateLimitStore' = out.store
           /\ rlLog' = Append(rlLog, out.response)
    /\ UNCHANGED <<rlNow, rlcVars, otherThanRl>>

RlSweep ==
    /\ rateLimitStore' = sweep(rateLimitStore, rlNow)
    /\ rateLimitStore' # rateLimitStore
    /\ UNCHANGED <<rlNow, rlLog, rlcVars, otherThanRl>>

RlTick ==
    /\ rlNow + TickMs <= MaxRlNow
    /\ rlNow' = rlNow + TickMs
    /\ UNCHANGED <<rateLimitStore, rlLog, rlcVars, otherThanRl>>

\* The limiter beside a copy of itself whose store is never swept: both
\* receive the same requests at the same times.
SweepIdle ==
    /\ rlUnswept = << >>
    /\ rlUnsweptLog = << >>
    /\ rlSwept = {}

SwRequest(key) ==
    /\ Len(rlLog) < MaxCalls
    /\ LET out == rateLimiter(rateLimitStore, key, rlNow)
           alone == rateLimiter(rlUnswept, key, rlNow)
       IN  /\ rateLimitStore' = out.store
           /\ rlLog' = Append(rlLog, out.response)
           /\ rlUnswept' = alone.store
           /\ rlUnsweptLog' = Append(rlUnsweptLog, alone.response)
    /\ UNCHANGED <<rlNow, rlSwept, otherThanSweep>>

SwSweep ==
    /\ rateLimitStore' = sweep(rateLimitStore, rlNow)
    /\ rateLimitStore' # rateLimitStore
    /\ rlSwept' = rlSwept \cup {[key |-> k, resetTime |-> rateLimitStore[k].resetTime] :
                                    k \in DOMAIN rateLimitStore \ DOMAIN rateLimitStore'}
    /\ UNCHANGED <<rlNow, rlLog, rlUnswept, rlUnsweptLog, otherThanSweep>>

SwTick ==
    /\ rlNow + TickMs <= MaxRlNow
    /\ rlNow' = rlNow + TickMs
    /\ UNCHANGED <<rateLimitStore, rlLog, sweepVars, otherThanSweep>>

(***************************************************************************)
(* The rate limiter middleware statement by statement, for requests that   *)
(* are in flight together.  Node runs one callback at a time: a callback   *)
(* keeps the call stack until it returns or reaches an await.              *)
(***************************************************************************)
MaxConcCalls == 4

ReqIds == 1..2

IdleReq == [pc |-> "idle", key |-> "", now |-> 0, entry |-> 0, seq |-> 0]

\* whether the middleware suspends before the statement at pc: the function
\* returned by rateLimiter(options) is synchronous from its first line to next()
rlYieldsBeforeIncrement(pc) == pc = "increment"

rlYields(pc) == FALSE

\* one statement of the middleware for request r; st = [heap, map, reqs, log, t]
rlStatement(st, r) ==
    LET rq == st.reqs[r]
        obj == st.heap[rq.entry]
        goto(pc) == [st.reqs EXCEPT ![r].pc = pc]
    IN  CASE rq.pc = "queued" ->
                \* const key = keyGenerator(req); const now = Date.now()
                [st EXCEPT !.reqs = [st.reqs EXCEPT ![r].pc = "lookup", ![r].now = st.t]]
          [] rq.pc = "lookup" ->
                \* let entry = rateLimitStore.get(key); if (!entry || now > entry.resetTime) entry = {...}
                IF rq.key \notin DOMAIN st.map \/ rq.now > st.heap[st.map[rq.key]].resetTime
                THEN [st EXCEPT !.heap = Append(st.heap, [count |-> 0,
                                                           resetTime |-> rq.now + WindowMs]),
                                !.reqs = [st.reqs EXCEPT ![r].pc = "increment",
                                                         ![r].entry = Len(st.heap) + 1]]
                ELSE [st EXCEPT !.reqs = [st.reqs EXCEPT ![r].pc = "increment",
                                                         ![r].entry = st.map[rq.key]]]
          [] rq.pc = "increment" ->
                \* entry.count++
                [st EXCEPT !.heap = [st.heap EXCEPT ![rq.entry].count = @ + 1],
                           !.reqs = goto("store")]
          [] rq.pc = "store" ->
                \* rateLimitStore.set(key, entry)
                [st EXCEPT !.map = [k \in DOMAIN st.map \cup {rq.key} |->
                                        IF k = rq.key THEN rq.entry ELSE st.map[k]],
                           !.reqs = goto("respond")]
          [] rq.pc = "respond" ->
                \* the headers, then 429 or next()
                LET rejected == obj.count > MaxRequests
                IN  [st EXCEPT !.log = Append(st.log,
                                    [key |-> rq.key, time |-> rq.now,
                                     status |-> IF rejected THEN 429 ELSE 200,
                                     admitted |-> ~rejected,
                                     limit |-> MaxRequests,
                                     remaining |-> Max(0, MaxRequests - obj.count),
                                     reset |-> obj.resetTime,
                                     retryAfter |-> IF rejected
                                                    THEN ceilDiv(obj.resetTime - rq.now, 1000)
                                                    ELSE 0,
                                     seq |-> rq.seq]),
                               !.reqs = [st.reqs EXCEPT ![r] = IdleReq]]

RlcInit ==
    /\ rlHeap = << >>
    /\ rlMap = << >>
    /\ rlReqs = [r \in ReqIds |-> IdleReq]
    /\ rlRunning = 0

\* the socket of client key delivers a request: its middleware call is queued
RlArrive(r, key) ==
    /\ rlReqs[r].pc = "idle"
    /\ Len(rlLog) + Cardinality({q \in ReqIds : rlReqs[q].pc # "idle"}) < MaxConcCalls
    /\ rlReqs' = [rlReqs EXCEPT ![r] = [IdleReq EXCEPT !.pc = "queued", !.key = key,
                                                       !.seq = Len(rlLog)]]
    /\ UNCHANGED <<rlHeap, rlMap, rlRunning, rlVars, otherThanRl>>

\* the event loop runs the next statement of request r
RlRun(r) ==
    /\ rlReqs[r].pc # "idle"
    /\ rlRunning \in {0, r}
    /\ LET st == rlStatement([heap |-> rlHeap, map |-> rlMap, reqs |-> rlReqs,
                              log |-> rlLog, t |-> rlNow], r)
           pc == st.reqs[r].pc
       IN  /\ rlHeap' = st.heap
           /\ rlMap' = st.map
           /\ rlReqs' = st.reqs
           /\ rlLog' = st.log
           /\ rlRunning' = IF pc = "idle" \/ rlYields(pc) THEN 0 ELSE r
    /\ UNCHANGED <<rlNow, rateLimitStore, otherThanRl>>

\* the setInterval callback on the Map of entry objects
RlcSweep ==
    /\ rlRunning = 0
    /\ rlMap' = [k \in {x \in DOMAIN rlMap : ~(rlNow > rlHeap[rlMap[x]].resetTime)} |->
                    rlMap[k]]
    /\ rlMap' # rlMap
    /\ UNCHANGED <<rlHeap, rlReqs, rlRunning, rlVars, otherThanRl>>

\* time passes between two callbacks
RlcTick ==
    /\ rlRunning = 0
    /\ rlNow + TickMs <= MaxRlNow
    /\ rlNow' = rlNow + TickMs
    /\ UNCHANGED <<rateLimitStore, rlLog, rlcVars, otherThanRl>>

(***************************************************************************)
(* The response cache: the NodeCache instance, the counters of cacheStats, *)
(* the cache middleware and cacheManager.  Cache keys and patterns are     *)
(* sequences of characters; a cached value is a response body.             *)
(***************************************************************************)
STD_TTL == 300          \* stdTTL of the NodeCache instance, seconds
MwTtlSeconds == 1       \* ttlSeconds of the cache middleware under test
CacheTickMs == 500
MaxCNow == 1500
MaxCacheOps == 4
MaxMwOps == 6

CReqIds == 1..2

\* `${keyPrefix}:${req.originalUrl}`
cacheKey(keyPrefix, originalUrl) == <<keyPrefix, ":">> \o originalUrl

KeyPrefixes == {"d", "a"}
OriginalUrls == {<<"/", "s">>, <<"/", "t">>}
CacheKeys == {cacheKey("d", <<"/", "s">>), cacheKey("d", <<"/", "t">>),
              cacheKey("a", <<"/", "s">>)}

\* what cache.get returns for a key it does not hold
Undefined == [for |-> << >>, head |-> 0, tail |-> 0]

\* the body a handler computed for a key: the two halves of one revision
Body(key, rev) == [for |-> key, head |-> rev, tail |-> rev]
Revisions == 1..2
Bodies(key) == {Body(key, rev) : rev \in Revisions}

\* NodeCache: the expiry of a value set at time t, 0 for a value that never
\* expires; a ttl that is not given is stdTTL
NoTtl == -1             \* stands for a ttl argument that is not given
wrapTtl(ttl, t) ==
    IF ttl = 0 THEN 0
    ELSE IF ttl = NoTtl THEN t + STD_TTL * 1000
    ELSE t + ttl * 1000

\* NodeCache: whether the entry is still alive at time t
alive(entry, t) == ~(entry.t # 0 /\ entry.t < t)

\* cache.get(key) ignoring the expiry of the entry
cacheGetNoExpiry(data, key, t) ==
    IF key \in DOMAIN data
    THEN [data |-> data, value |-> data[key].v]
    ELSE [data |-> data, value |-> Undefined]

\* cache.get(key): the value, or undefined for an absent or expired key, which
\* an expired key also stops being
cacheGet(data, key, t) ==
    IF key \in DOMAIN data /\ alive(data[key], t)
    THEN [data |-> data, value |-> data[key].v]
    ELSE [data |-> [k \in DOMAIN data \ {key} |-> data[k]], value |-> Undefined]

\* cache.set(key, value, ttl) keeping the parts of the old value it is not given
cacheSetMerging(data, key, value, ttl, t) ==
    [k \in DOMAIN data \cup {key} |->
        IF k = key
        THEN [v |-> IF key \in DOMAIN data
                    THEN [value EXCEPT !.tail = data[key].v.tail] ELSE value,
              t |-> wrapTtl(ttl, t)]
        ELSE data[k]]

\* cache.set(key, value, ttl): useClones is false, the value is stored as given
cacheSet(data, key, value, ttl, t) ==
    [k \in DOMAIN data \cup {key} |->
        IF k = key THEN [v |-> value, t |-> wrapTtl(ttl, t)] ELSE data[k]]

\* cache.del(key)
cacheDel(data, key) == [k \in DOMAIN data \ {key} |-> data[k]]

\* cache.getTtl(key): the expiry of a key the cache holds
getTtl(data, key) == data[key].t

\* the periodic check of the NodeCache instance (checkperiod)
checkData(data, t) == [k \in {x \in DOMAIN data : alive(data[x], t)} |-> data[k]]

\* new RegExp(pattern).test(key) for patterns made of literal characters, the
\* wildcard "." and a leading "^"
regexTest(pattern, key) ==
    LET anchored == Len(pattern) > 0 /\ pattern[1] = "^"
        body == IF anchored THEN Tail(pattern) ELSE pattern
        matchAt(off) ==
            /\ off + Len(body) - 1 <= Len(key)
            /\ \A i \in 1..Len(body) : body[i] = "." \/ body[i] = key[off + i - 1]
    IN  \E off \in (IF anchored THEN {1} ELSE 1..(Len(key) + 1)) : matchAt(off)

Patterns == {<<"d">>, <<"/", "s">>, <<"^", "a">>, <<"a", ".", "/">>, <<"x">>, << >>}

\* invalidatePattern testing the pattern at the start of the key only
invalidatePatternAtStart(data, pattern) ==
    LET matching == {k \in DOMAIN data :
                        regexTest(IF Len(pattern) > 0 /\ pattern[1] = "^"
                                  THEN pattern ELSE <<"^">> \o pattern, k)}
    IN  [data |-> [k \in DOMAIN data \ matching |-> data[k]],
         deleted |-> Cardinality(matching)]

\* cacheManager.invalidatePattern(pattern): every key of cache.keys() the
\* expression matches is deleted and counted
invalidatePattern(data, pattern) ==
    LET matching == {k \in DOMAIN data : regexTest(pattern, k)}
    IN  [data |-> [k \in DOMAIN data \ matching |-> data[k]],
         deleted |-> Cardinality(matching)]

\* cacheManager.stats(): the counters of cacheStats over those of NodeCache, the
\* number of keys, and hitRate as the fraction num/den (NaN || 0 is 0)
stats(data, st) ==
    [hits |-> st.hits, misses |-> st.misses, sets |-> st.sets,
     keys |-> Cardinality(DOMAIN data),
     hitRate |-> IF st.hits + st.misses = 0 THEN [num |-> 0, den |-> 1]
                 ELSE [num |-> st.hits, den |-> st.hits + st.misses]]

Ttls == {0, 1}
Statuses == {200, 299, 300, 404}

IdleCacheReq == [pc |-> "idle", key |-> << >>, sets0 |-> 0, flushed |-> FALSE]

NoCacheOp ==
    [n |-> 0, at |-> 0, op |-> "none", key |-> << >>, pattern |-> << >>,
     value |-> Undefined,
     ttl |-> 0, status |-> 0, returned |-> Undefined, deleted |-> 0,
     stored |-> FALSE, concurrent |-> FALSE, replaced |-> FALSE,
     report |-> stats(<< >>, [hits |-> 0, misses |-> 0, sets |-> 0])]

\* the record of the operation that follows the one recorded in log
NextOp(log, op, key) ==
    [NoCacheOp EXCEPT !.n = log.n + 1, !.at = cNow, !.op = op, !.key = key]

CacheInit ==
    /\ cNow = 0
    /\ cache = << >>
    /\ cacheStats = [hits |-> 0, misses |-> 0, sets |-> 0]
    /\ cReqs = [r \in CReqIds |-> IdleCacheReq]
    /\ cLog = NoCacheOp
    /\ cLastSet = << >>

\* the last sets that remain after the keys of gone were deleted
forget(last, gone) == [k \in DOMAIN last \ gone |-> last[k]]

remember(last, key, value, ttl, t) ==
    [k \in DOMAIN last \cup {key} |->
        IF k = key THEN [value |-> value, ttl |-> ttl, time |-> t, preFlush |-> FALSE]
        ELSE last[k]]

\* the requests in flight, those whose key has just been dropped from the
\* cache being marked: they missed before the flush or invalidation
markFlushed(reqs, affected) ==
    [r \in DOMAIN reqs |->
        IF reqs[r].pc = "handler" /\ reqs[r].key \in affected
        THEN [reqs[r] EXCEPT !.flushed = TRUE] ELSE reqs[r]]

\* cacheManager.get(key)
CmGet(key, cap) ==
    /\ cLog.n < cap
    /\ LET got == cacheGet(cache, key, cNow)
       IN  /\ cache' = got.data
           /\ cLog' = [NextOp(cLog, "get", key) EXCEPT !.returned = got.value]
    /\ UNCHANGED <<cNow, cacheStats, cReqs, cLastSet, otherThanCache>>

\* cacheManager.set(key, value, ttl)
CmSet(key, value, ttl, cap) ==
    /\ cLog.n < cap
    /\ cache' = cacheSet(cache, key, value, ttl, cNow)
    /\ cacheStats' = [cacheStats EXCEPT !.sets = @ + 1]
    /\ cLastSet' = remember(cLastSet, key, value, ttl, cNow)
    /\ cLog' = [NextOp(cLog, "set", key) EXCEPT !.value = value, !.ttl = ttl,
                                                !.stored = TRUE]
    /\ UNCHANGED <<cNow, cReqs, otherThanCache>>

\* cacheManager.del(key)
CmDel(key, cap) ==
    /\ cLog.n < cap
    /\ cache' = cacheDel(cache, key)
    /\ cLastSet' = forget(cLastSet, {key})
    /\ cLog' = [NextOp(cLog, "del", key) EXCEPT
                    !.deleted = IF key \in DOMAIN cache THEN 1 ELSE 0]
    /\ UNCHANGED <<cNow, cacheStats, cReqs, otherThanCache>>

\* DELETE /api/cache/flush: cacheManager.flush()
CmFlush(cap) ==
    /\ cLog.n < cap
    /\ cache' = << >>
    /\ cLastSet' = << >>
    /\ cLog' = NextOp(cLog, "flush", << >>)
    /\ cReqs' = markFlushed(cReqs, CacheKeys)
    /\ UNCHANGED <<cNow, cacheStats, otherThanCache>>

\* GET /api/cache/stats: cacheManager.stats()
CmStats(cap) ==
    /\ cLog.n < cap
    /\ cLog' = [NextOp(cLog, "stats", << >>) EXCEPT !.report = stats(cache, cacheStats)]
    /\ UNCHANGED <<cNow, cache, cacheStats, cReqs, cLastSet, otherThanCache>>

\* DELETE /api/cache/pattern/:pattern: cacheManager.invalidatePattern(pattern)
CmInvalidatePattern(pattern, cap) ==
    /\ cLog.n < cap
    /\ LET out == invalidatePattern(cache, pattern)
       IN  /\ cache' = out.data
           /\ cLastSet' = forget(cLastSet, DOMAIN cache \ DOMAIN out.data)
           /\ cLog' = [NextOp(cLog, "invalidatePattern", << >>) EXCEPT
                            !.pattern = pattern, !.deleted = out.deleted]
    /\ cReqs' = markFlushed(cReqs, {k \in CacheKeys : regexTest(pattern, k)})
    /\ UNCHANGED <<cNow, cacheStats, otherThanCache>>

\* res.json of a request that missed answering without looking at the status
resJsonAnyStatus(data, st, key, status, body, t) ==
    [data |-> cacheSet(data, key, body, MwTtlSeconds, t),
     stats |-> [st EXCEPT !.sets = @ + 1], stored |-> TRUE]

\* the res.json installed by the middleware for a request that missed
resJson(data, st, key, status, body, t) ==
    IF status >= 200 /\ status < 300
    THEN [data |-> cacheSet(data, key, body, MwTtlSeconds, t),
          stats |-> [st EXCEPT !.sets = @ + 1], stored |-> TRUE]
    ELSE [data |-> data, stats |-> st, stored |-> FALSE]

\* the cache middleware receives request r for originalUrl under keyPrefix: a
\* hit answers it, a miss passes it to the route handler
CacheRequest(r, keyPrefix, originalUrl, cap) ==
    /\ cLog.n < cap
    /\ cReqs[r].pc = "idle"
    /\ LET key == cacheKey(keyPrefix, originalUrl)
           got == cacheGet(cache, key, cNow)
           hit == got.value # Undefined
       IN  /\ cache' = got.data
           /\ cacheStats' = IF hit THEN [cacheStats EXCEPT !.hits = @ + 1]
                            ELSE [cacheStats EXCEPT !.misses = @ + 1]
           /\ cReqs' = IF hit THEN cReqs
                       ELSE [cReqs EXCEPT ![r] = [pc |-> "handler", key |-> key,
                                                  sets0 |-> cacheStats.sets,
                                                  flushed |-> FALSE]]
           /\ cLog' = [NextOp(cLog, "request", key) EXCEPT
                            !.returned = got.value,
                            !.status = IF hit THEN 200 ELSE 0,
                            !.ttl = IF hit THEN getTtl(cache, key) - cNow ELSE 0]
    /\ UNCHANGED <<cNow, cLastSet, otherThanCache>>

\* the route handler of request r answers res.status(status).json(body)
CacheRespond(r, status, body) ==
    /\ cReqs[r].pc = "handler"
    /\ body \in Bodies(cReqs[r].key)
    /\ LET key == cReqs[r].key
           out == resJson(cache, cacheStats, key, status, body, cNow)
       IN  /\ cache' = out.data
           /\ cacheStats' = out.stats
           /\ cLastSet' = IF out.stored
                          THEN [remember(cLastSet, key, body, MwTtlSeconds, cNow)
                                    EXCEPT ![key].preFlush = cReqs[r].flushed]
                          ELSE cLastSet
           /\ cLog' = [NextOp(cLog, "respond", key) EXCEPT
                            !.value = body, !.status = status, !.stored = out.stored,
                            !.concurrent = cacheStats.sets > cReqs[r].sets0,
                            !.replaced = /\ key \in DOMAIN cache
                                         /\ cache[key].v # body]
    /\ cReqs' = [cReqs EXCEPT ![r] = IdleCacheReq]
    /\ UNCHANGED <<cNow, otherThanCache>>

\* the check the NodeCache instance runs every checkperiod seconds
CacheCheck ==
    /\ cache' = checkData(cache, cNow)
    /\ cache' # cache
    /\ UNCHANGED <<cNow, cacheStats, cReqs, cLog, cLastSet, otherThanCache>>

CacheTick ==
    /\ cNow + CacheTickMs <= MaxCNow
    /\ cNow' = cNow + CacheTickMs
    /\ UNCHANGED <<cache, cacheStats, cReqs, cLog, cLastSet, otherThanCache>>

(***************************************************************************)
(* Inventory management: generateReorderSuggestions.  The service reads    *)
(* the Product table and the sums of the quantities sold in the last 30    *)
(* days; every query it sends is recorded.                                 *)
(***************************************************************************)
REORDER_LEAD_DAYS == 7
SAFETY_STOCK_DAYS == 3
LOW_STOCK_LIMIT == 50       \* stock_quantity: { [Op.lte]: 50 }
SALES_WINDOW_DAYS == 30
MaxProducts == 2

\* Math.ceil(avgDailySales * 30) in double arithmetic, for totalSold <= 60:
\* 31 / 30 * 30 is 31.000000000000004
ceilAvgTimes30(totalSold) == IF totalSold = 31 THEN 32 ELSE totalSold

\* Math.floor(stock / avgDailySales) in double arithmetic, for totalSold <= 60
\* and stock <= 50: the quotients that fall just below a whole number
floorStockOverAvg(stock, totalSold) ==
    IF <<totalSold, stock>> \in {<<23, 23>>, <<23, 46>>, <<31, 31>>, <<33, 33>>,
                                 <<35, 35>>, <<46, 23>>, <<46, 46>>}
    THEN (stock * 30) \div totalSold - 1
    ELSE (stock * 30) \div totalSold

NoDays == -1            \* daysUntilStockout: null

\* the rows of Product.findAll({ where: stock_quantity <= 50 }), by id
lowStockIds(prods) == {i \in DOMAIN prods : prods[i].stock_quantity <= LOW_STOCK_LIMIT}

\* the ids of a set in ascending order
RECURSIVE ascending(_)
ascending(S) ==
    IF S = {} THEN << >>
    ELSE LET m == CHOOSE x \in S : \A y \in S : x <= y
         IN  <<m>> \o ascending(S \ {m})

\* salesMap.get(product.id) || 0 over the rows of the batched query
totalSoldOf(sales, ids, id) == IF id \in DOMAIN sales /\ id \in ids THEN sales[id] ELSE 0

\* the body of the loop over the products: the suggestion of one product, or none
suggestionOf(prods, sales, ids, id) ==
    LET product == prods[id]
        totalSold == totalSoldOf(sales, ids, id)
        leadTime == IF product.average_delivery_days = 0 THEN REORDER_LEAD_DAYS
                    ELSE product.average_delivery_days
        reorderPoint == ceilDiv(totalSold * (leadTime + SAFETY_STOCK_DAYS),
                                SALES_WINDOW_DAYS)
        urgency == IF product.stock_quantity = 0 THEN "critical"
                   ELSE IF product.stock_quantity * SALES_WINDOW_DAYS <= totalSold * 3
                        THEN "high"
                   ELSE "medium"
    IN  IF product.stock_quantity <= reorderPoint
        THEN <<[id |-> id, currentStock |-> product.stock_quantity,
                totalSold |-> totalSold, reorderPoint |-> reorderPoint,
                recommendedQuantity |-> ceilAvgTimes30(totalSold),
                daysUntilStockout |-> IF totalSold > 0
                                      THEN floorStockOverAvg(product.stock_quantity,
                                                             totalSold)
                                      ELSE NoDays,
                urgency |-> urgency]>>
        ELSE << >>

RECURSIVE suggestionsOf(_, _, _, _)
suggestionsOf(prods, sales, ids, order) ==
    IF order = << >> THEN << >>
    ELSE suggestionOf(prods, sales, ids, Head(order))
             \o suggestionsOf(prods, sales, ids, Tail(order))

\* the sort putting high before critical
sortByUrgencyHighFirst(suggestions) ==
    SelectSeq(suggestions, LAMBDA x : x.urgency = "high")
        \o SelectSeq(suggestions, LAMBDA x : x.urgency = "critical")
        \o SelectSeq(suggestions, LAMBDA x : x.urgency = "medium")

\* suggestions.sort by urgencyOrder; Array.prototype.sort is stable
sortByUrgency(suggestions) ==
    SelectSeq(suggestions, LAMBDA x : x.urgency = "critical")
        \o SelectSeq(suggestions, LAMBDA x : x.urgency = "high")
        \o SelectSeq(suggestions, LAMBDA x : x.urgency = "medium")

countUrgency(suggestions, u) == Len(SelectSeq(suggestions, LAMBDA x : x.urgency = u))

\* the result object built from the list of suggestions
reorderReport(suggestions) ==
    [totalSuggestions |-> Len(suggestions),
     criticalCount |-> countUrgency(suggestions, "critical"),
     highCount |-> countUrgency(suggestions, "high"),
     suggestions |-> suggestions]

\* the sales query sent once for each candidate product
salesQueriesPerProduct(order) == [i \in DOMAIN order |-> [model |-> "Transaction",
                                                          product_ids |-> {order[i]}]]

\* the sales queries of one call: the batched Transaction.findAll over productIds
salesQueries(order) == <<[model |-> "Transaction", product_ids |-> {order[i] : i \in DOMAIN order}]>>

\* generateReorderSuggestions(): the queries it sent and what it returned
generateReorderSuggestions(prods, sales) ==
    LET ids == lowStockIds(prods)
        order == ascending(ids)
        first == <<[model |-> "Product", product_ids |-> ids]>>
    IN  IF Len(order) = 0
        THEN [queries |-> first, report |-> reorderReport(<< >>)]
        ELSE [queries |-> first \o salesQueries(order),
              report |-> reorderReport(sortByUrgency(
                             suggestionsOf(prods, sales, ids, order)))]

ProductRows ==
    [stock_quantity : {0, 5, 31, 51}, average_delivery_days : {0, 4}]
SalesTotals == {10, 31, 60}

InvIdle ==
    /\ invProducts = << >>
    /\ invSales = << >>
    /\ invResult = [calls |-> 0]

\* the tables the service can find: up to MaxProducts products, some with sales
InvInit ==
    /\ \E n \in 0..MaxProducts : invProducts \in [1..n -> ProductRows]
    /\ \E S \in SUBSET DOMAIN invProducts : invSales \in [S -> SalesTotals]
    /\ invResult = [calls |-> 0]

GenerateReorder ==
    /\ invResult.calls = 0
    /\ invResult' = [calls |-> 1] @@ generateReorderSuggestions(invProducts, invSales)
    /\ UNCHANGED <<invProducts, invSales, otherThanInv>>

(***************************************************************************)
(* Inventory management: predictStockLevels.  avgDailySales, trend and the *)
(* projected stock are fractions; they are kept as integer numerators over *)
(* the common denominator predDenominator(dailySales).                     *)
(***************************************************************************)
DaysAhead == 4          \* argument daysAhead of the calls made
TREND_DAYS == 7
TREND_SCALE_DAYS == 30
HIGH_RISK_STOCK == 10

RECURSIVE sumSeq(_)
sumSeq(q) == IF q = << >> THEN 0 ELSE q[1] + sumSeq(Tail(q))

\* firstWeekAvg * 7 and lastWeekAvg * 7; without a trend both count as 1
firstWeekSum(dailySales) ==
    IF Len(dailySales) >= TREND_DAYS THEN sumSeq(SubSeq(dailySales, 1, TREND_DAYS)) ELSE 1
lastWeekSum(dailySales) ==
    IF Len(dailySales) >= TREND_DAYS
    THEN sumSeq(SubSeq(dailySales, Len(dailySales) - TREND_DAYS + 1, Len(dailySales)))
    ELSE 1

predDenominator(dailySales) ==
    TREND_SCALE_DAYS * Max(1, Len(dailySales)) * firstWeekSum(dailySales)

\* Math.max(0, avgDailySales * (1 + trend * (day / 30))) times the denominator
predictedSales(dailySales, day) ==
    Max(0, sumSeq(dailySales)
           * (TREND_SCALE_DAYS * firstWeekSum(dailySales)
              + (lastWeekSum(dailySales) - firstWeekSum(dailySales)) * day))

\* currentStock after the iteration of day, times the denominator
RECURSIVE currentStock(_, _, _)
currentStock(stock, dailySales, day) ==
    IF day = 0 THEN stock * predDenominator(dailySales)
    ELSE Max(0, currentStock(stock, dailySales, day - 1) - predictedSales(dailySales, day))

\* Math.round of the non-negative fraction num / den
roundFraction(num, den) == (2 * num + den) \div (2 * den)

\* the classification of a day on the projected stock itself
stockoutRisk(current, den) ==
    IF current <= 0 THEN "critical"
    ELSE IF current <= HIGH_RISK_STOCK * den THEN "high" ELSE "low"

prediction(stock, dailySales, day) ==
    [day |-> day,
     predictedStock |-> roundFraction(currentStock(stock, dailySales, day),
                                      predDenominator(dailySales)),
     predictedSales |-> roundFraction(predictedSales(dailySales, day),
                                      predDenominator(dailySales)),
     stockoutRisk |-> stockoutRisk(currentStock(stock, dailySales, day),
                                   predDenominator(dailySales))]

\* predictions.find(p => p.predictedStock <= 0), as a day or NoDays
stockoutDay(predictions) ==
    IF \E d \in DOMAIN predictions : predictions[d].predictedStock <= 0
    THEN CHOOSE d \in DOMAIN predictions :
             /\ predictions[d].predictedStock <= 0
             /\ \A e \in 1..(d - 1) : predictions[e].predictedStock > 0
    ELSE NoDays

\* predictStockLevels(productId, daysAhead) for a product that was found
predictStockLevels(product, dailySales, daysAhead) ==
    LET predictions == [day \in 1..daysAhead |->
                           prediction(product.stock_quantity, dailySales, day)]
    IN  [product |-> [currentStock |-> product.stock_quantity],
         analytics |-> [daysUntilStockout |-> stockoutDay(predictions)],
         predictions |-> predictions]

\* units sold per day with sales, oldest first: no sales, short histories
\* without a trend, and eight days that are steady, rising and falling
PredictSales ==
    {<< >>, <<2>>, <<1, 2>>, <<1, 1, 1, 2>>, <<2, 2, 2, 2, 2, 2, 2, 2>>,
     <<1, 1, 1, 1, 1, 1, 1, 3>>, <<3, 1, 1, 1, 1, 1, 1, 1>>}
PredictStocks == {0, 1, 3, 4, 5, 8, 12, 20}

NoPrediction == [done |-> FALSE]

PredictIdle ==
    /\ predInput = [found |-> FALSE, stock_quantity |-> 0, dailySales |-> << >>]
    /\ predResult = NoPrediction

PredictInit ==
    /\ predInput \in [found : {TRUE}, stock_quantity : PredictStocks,
                      dailySales : PredictSales]
                     \cup {[found |-> FALSE, stock_quantity |-> 0, dailySales |-> << >>]}
    /\ predResult = NoPrediction

PredictStock ==
    /\ ~predResult.done
    /\ predResult' =
           IF predInput.found
           THEN [done |-> TRUE, null |-> FALSE]
                @@ predictStockLevels(predInput, predInput.dailySales, DaysAhead)
           ELSE [done |-> TRUE, null |-> TRUE]
    /\ UNCHANGED <<predInput, otherThanPredict>>

(***************************************************************************)
(* Customer analytics: performRFMAnalysis.  Timestamps are days; a missing *)
(* property of an rfmData record (undefined) is the value NoValue.         *)
(***************************************************************************)
RfmNow == 30            \* the day the analysis runs
MaxCustomers == 3
TOP_CUSTOMERS == 20
NoValue == -1           \* undefined
NullValue == -2         \* null

\* max of the timestamps of a non-empty list of transactions
RECURSIVE lastPurchase(_)
lastPurchase(txs) ==
    IF Len(txs) = 1 THEN txs[1].timestamp
    ELSE Max(txs[1].timestamp, lastPurchase(Tail(txs)))

RECURSIVE sumAmounts(_)
sumAmounts(txs) ==
    IF txs = << >> THEN 0 ELSE txs[1].total_amount + sumAmounts(Tail(txs))

\* the rfmData record of the first loop for customer id
rfmRecord(id, txs, t) ==
    IF Len(txs) = 0
    THEN [customerId |-> id, recency |-> NullValue, recencyDays |-> NoValue,
          frequency |-> 0, monetary |-> 0,
          rfmScore |-> "111", totalScore |-> NoValue, segment |-> "Lost"]
    ELSE [customerId |-> id, recency |-> NoValue, recencyDays |-> t - lastPurchase(txs),
          frequency |-> Len(txs), monetary |-> sumAmounts(txs),
          rfmScore |-> "", totalScore |-> NoValue, segment |-> ""]

\* getPercentile(arr, val, inverse) as the fraction num/den: the array is
\* sorted with its undefined elements last, and no element is >= undefined
getPercentile(arr, val, inverse) ==
    LET index == IF val = NoValue THEN -1
                 ELSE Cardinality({i \in DOMAIN arr : arr[i] # NoValue /\ arr[i] < val})
        num == index * 100
    IN  [num |-> IF inverse THEN 100 * Len(arr) - num ELSE num, den |-> Len(arr)]

getScore(percentile) ==
    IF percentile.num >= 80 * percentile.den THEN 5
    ELSE IF percentile.num >= 60 * percentile.den THEN 4
    ELSE IF percentile.num >= 40 * percentile.den THEN 3
    ELSE IF percentile.num >= 20 * percentile.den THEN 2
    ELSE 1

assignSegmentLoyalistsFirst(r, f, m) ==
    IF r >= 4 /\ f >= 4 /\ m >= 4 THEN "Champions"
    ELSE IF r >= 3 /\ f >= 3 /\ m >= 3 THEN "Potential Loyalists"
    ELSE IF r >= 4 /\ f >= 3 /\ m >= 3 THEN "Loyal Customers"
    ELSE IF r >= 4 /\ f <= 2 THEN "New Customers"
    ELSE IF r <= 2 /\ f >= 4 /\ m >= 4 THEN "At Risk"
    ELSE IF r <= 2 /\ f >= 2 /\ m >= 2 THEN "Need Attention"
    ELSE IF r <= 2 /\ f <= 2 /\ m <= 2 THEN "Lost"
    ELSE IF m >= 4 THEN "Big Spenders"
    ELSE "Others"

assignSegment(r, f, m) ==
    IF r >= 4 /\ f >= 4 /\ m >= 4 THEN "Champions"
    ELSE IF r >= 4 /\ f >= 3 /\ m >= 3 THEN "Loyal Customers"
    ELSE IF r >= 4 /\ f <= 2 THEN "New Customers"
    ELSE IF r >= 3 /\ f >= 3 /\ m >= 3 THEN "Potential Loyalists"
    ELSE IF r <= 2 /\ f >= 4 /\ m >= 4 THEN "At Risk"
    ELSE IF r <= 2 /\ f >= 2 /\ m >= 2 THEN "Need Attention"
    ELSE IF r <= 2 /\ f <= 2 /\ m <= 2 THEN "Lost"
    ELSE IF m >= 4 THEN "Big Spenders"
    ELSE "Others"

\* the guard of the second loop: customer.recencyDays === null
skipsScoring(record) == record.recencyDays = NullValue

\* the second loop for one record, given the three arrays of values
scored(record, recencyValues, frequencyValues, monetaryValues) ==
    IF skipsScoring(record) THEN record
    ELSE LET r == getScore(getPercentile(recencyValues, record.recencyDays, TRUE))
             f == getScore(getPercentile(frequencyValues, record.frequency, FALSE))
             m == getScore(getPercentile(monetaryValues, record.monetary, FALSE))
         IN  [record EXCEPT !.rfmScore = ToString(r) \o ToString(f) \o ToString(m),
                            !.totalScore = r + f + m,
                            !.segment = assignSegment(r, f, m)]

\* sort((a, b) => b.totalScore - a.totalScore) of the records with a totalScore
RECURSIVE byTotalScore(_, _)
byTotalScore(data, score) ==
    IF score < 3 THEN << >>
    ELSE SelectSeq(data, LAMBDA c : c.totalScore = score) \o byTotalScore(data, score - 1)

\* performRFMAnalysis() over the customers and their completed transactions
performRFMAnalysis(custs, t) ==
    LET rfmData == [i \in DOMAIN custs |-> rfmRecord(i, custs[i], t)]
        \* filter(r => r.recencyDays !== null): undefined is not null
        recencyValues == SelectSeq([i \in DOMAIN rfmData |-> rfmData[i].recencyDays],
                                   LAMBDA v : v # NullValue)
        frequencyValues == [i \in DOMAIN rfmData |-> rfmData[i].frequency]
        monetaryValues == [i \in DOMAIN rfmData |-> rfmData[i].monetary]
        result == [i \in DOMAIN rfmData |->
                      scored(rfmData[i], recencyValues, frequencyValues, monetaryValues)]
        names == {result[i].segment : i \in DOMAIN result}
    IN  [totalCustomers |-> Len(rfmData),
         customers |-> result,
         segments |-> [sg \in names |->
                          [count |-> Cardinality({i \in DOMAIN result :
                                                      result[i].segment = sg}),
                           customers |-> SelectSeq(result, LAMBDA c : c.segment = sg)]],
         topCustomers |-> SubSeq(byTotalScore(result, 15), 1,
                                 Min(TOP_CUSTOMERS, Len(byTotalScore(result, 15))))]

\* histories of completed transactions: none, one recent, two older, three
RfmHistories ==
    {<< >>,
     <<[timestamp |-> 29, total_amount |-> 5000]>>,
     <<[timestamp |-> 5, total_amount |-> 2000], [timestamp |-> 15, total_amount |-> 9000]>>,
     <<[timestamp |-> 20, total_amount |-> 100], [timestamp |-> 24, total_amount |-> 100],
       [timestamp |-> 28, total_amount |-> 100]>>}

NoRfmResult == [done |-> FALSE]

RfmIdle ==
    /\ rfmInput = << >>
    /\ rfmResult = NoRfmResult

RfmInit ==
    /\ \E n \in 1..MaxCustomers : rfmInput \in [1..n -> RfmHistories]
    /\ rfmResult = NoRfmResult

PerformRFM ==
    /\ ~rfmResult.done
    /\ rfmResult' = [done |-> TRUE] @@ performRFMAnalysis(rfmInput, RfmNow)
    /\ UNCHANGED <<rfmInput, otherThanRfm>>

\* assignSegment called on its own with scores of getScore's range
RfmScores == 1..5
NoSegment == "none"

SegIdle ==
    /\ segInput = <<1, 1, 1>>
    /\ segResult = NoSegment

SegInit ==
    /\ segInput \in RfmScores \X RfmScores \X RfmScores
    /\ segResult = NoSegment

AssignSegment ==
    /\ segResult = NoSegment
    /\ segResult' = assignSegment(segInput[1], segInput[2], segInput[3])
    /\ UNCHANGED <<segInput, otherThanSeg>>

(***************************************************************************)
(* Customer analytics: identifyChurnRisk.  Timestamps are half days, so    *)
(* that the rounding down to whole days has something to round.            *)
(***************************************************************************)
HalfDaysPerDay == 2
ChurnNow == 90            \* Date.now(), in half days
MaxChurnCustomers == 2

\* the transaction the reduce of identifyChurnRisk ends on
latestStamp(txs) == CHOOSE x \in {txs[i] : i \in DOMAIN txs} : \A i \in DOMAIN txs : txs[i] <= x
earliestStamp(txs) == CHOOSE x \in {txs[i] : i \in DOMAIN txs} : \A i \in DOMAIN txs : txs[i] >= x

\* Math.floor((Date.now() - lastPurchaseDate) / one day)
daysSinceLastPurchase(txs, t) == (t - latestStamp(txs)) \div HalfDaysPerDay

\* Math.floor((lastPurchaseDate - firstPurchase) / (one day * (length - 1)))
avgDaysBetweenPurchases(txs) ==
    (latestStamp(txs) - earliestStamp(txs)) \div (HalfDaysPerDay * (Len(txs) - 1))

\* the if / else if chain on daysSinceLastPurchase; x > avg * 1.5 is 2x > 3 avg
churnLevel(txs, t) ==
    LET days == daysSinceLastPurchase(txs, t)
        avg == avgDaysBetweenPurchases(txs)
    IN  IF days > avg * 3 THEN [churnProbability |-> 90, riskLevel |-> "critical"]
        ELSE IF days > avg * 2 THEN [churnProbability |-> 70, riskLevel |-> "high"]
        ELSE IF 2 * days > avg * 3 THEN [churnProbability |-> 40, riskLevel |-> "medium"]
        ELSE [churnProbability |-> 0, riskLevel |-> "low"]

\* the churnRisk entry pushed for customer id, whose churnProbability is >= 0.4
churnEntry(id, txs, t) ==
    [customer |-> id,
     metrics |-> [transactionCount |-> Len(txs),
                  daysSinceLastPurchase |-> daysSinceLastPurchase(txs, t),
                  avgDaysBetweenPurchases |-> avgDaysBetweenPurchases(txs)],
     churnProbability |-> ToString(churnLevel(txs, t).churnProbability) \o "%",
     riskLevel |-> churnLevel(txs, t).riskLevel]

\* the loop over the customers: those without two transactions are skipped
RECURSIVE churnRiskOf(_, _, _)
churnRiskOf(custs, i, t) ==
    IF i > Len(custs) THEN << >>
    ELSE (IF Len(custs[i]) >= 2 /\ churnLevel(custs[i], t).churnProbability >= 40
          THEN <<churnEntry(i, custs[i], t)>> ELSE << >>)
         \o churnRiskOf(custs, i + 1, t)

\* churnRisk.sort by riskOrder; the sort is stable
sortByRisk(churnRisk) ==
    SelectSeq(churnRisk, LAMBDA c : c.riskLevel = "critical")
    \o SelectSeq(churnRisk, LAMBDA c : c.riskLevel = "high")
    \o SelectSeq(churnRisk, LAMBDA c : c.riskLevel = "medium")

identifyChurnRisk(custs, t) ==
    LET churnRisk == sortByRisk(churnRiskOf(custs, 1, t))
    IN  [totalAtRisk |-> Len(churnRisk),
         criticalCount |-> Len(SelectSeq(churnRisk, LAMBDA c : c.riskLevel = "critical")),
         highCount |-> Len(SelectSeq(churnRisk, LAMBDA c : c.riskLevel = "high")),
         mediumCount |-> Len(SelectSeq(churnRisk, LAMBDA c : c.riskLevel = "medium")),
         customers |-> churnRisk]

\* purchase histories, newest first: none, one purchase, and purchases whose
\* distance from ChurnNow falls on each side of each tier
ChurnHistories ==
    {<< >>, <<76>>, <<20, 0>>, <<76, 70, 66>>, <<80, 70>>, <<60, 40>>, <<58, 38>>,
     <<48, 28>>, <<87, 86>>}

NoChurnResult == [done |-> FALSE]

ChurnIdle ==
    /\ churnInput = << >>
    /\ churnResult = NoChurnResult

ChurnInit ==
    /\ \E n \in 1..MaxChurnCustomers : churnInput \in [1..n -> ChurnHistories]
    /\ churnResult = NoChurnResult

IdentifyChurnRisk ==
    /\ ~churnResult.done
    /\ churnResult' = [done |-> TRUE] @@ identifyChurnRisk(churnInput, ChurnNow)
    /\ UNCHANGED <<churnInput, otherThanChurn>>

(***************************************************************************)
(* The dashboard's WebSocketService (frontend): connect, the handlers it   *)
(* installs on each socket, attemptReconnect and disconnect.               *)
(***************************************************************************)
maxReconnectAttempts == 5
MaxSockets == 6

SocketIds == 1..MaxSockets

WcInit ==
    /\ wcWs = 0
    /\ wcSockets = [s \in SocketIds |-> "none"]
    /\ wcAttempts = 0
    /\ wcTimers = 0
    /\ wcDisconnected = FALSE

\* the sockets created so far are 1..created
created(sockets) == Cardinality({s \in SocketIds : sockets[s] # "none"})

\* connect(url): nothing when this.ws is open, else this.ws = new WebSocket(url)
connect(ws, sockets) ==
    IF ws # 0 /\ sockets[ws] = "open" THEN [ws |-> ws, sockets |-> sockets]
    ELSE [ws |-> created(sockets) + 1,
          sockets |-> [sockets EXCEPT ![created(sockets) + 1] = "connecting"]]

\* attemptReconnect(url): the counter and the timers after the call
attemptReconnect(attempts, timers) ==
    IF attempts < maxReconnectAttempts
    THEN [attempts |-> attempts + 1, timers |-> timers + 1]
    ELSE [attempts |-> attempts, timers |-> timers]

\* the application calls wsService.connect()
WcConnect ==
    /\ created(wcSockets) < MaxSockets
    /\ LET out == connect(wcWs, wcSockets)
       IN  wcWs' = out.ws /\ wcSockets' = out.sockets
    /\ wcDisconnected' = FALSE
    /\ UNCHANGED <<wcAttempts, wcTimers, otherThanWc>>

\* a timer of attemptReconnect runs: () => this.connect(url)
WcTimer ==
    /\ wcTimers > 0
    /\ created(wcSockets) < MaxSockets
    /\ wcTimers' = wcTimers - 1
    /\ LET out == connect(wcWs, wcSockets)
       IN  wcWs' = out.ws /\ wcSockets' = out.sockets
    /\ UNCHANGED <<wcAttempts, wcDisconnected, otherThanWc>>

\* socket s connects: its onopen runs
WcOpen(s) ==
    /\ wcSockets[s] = "connecting"
    /\ wcSockets' = [wcSockets EXCEPT ![s] = "open"]
    /\ wcAttempts' = 0
    /\ UNCHANGED <<wcWs, wcTimers, wcDisconnected, otherThanWc>>

\* socket s is closed: the connection failed, the server or the network
\* closed it, or the close() of disconnect has completed; its onclose runs
WcClose(s) ==
    /\ wcSockets[s] \in {"connecting", "open", "closing"}
    /\ wcSockets' = [wcSockets EXCEPT ![s] = "closed"]
    /\ LET out == attemptReconnect(wcAttempts, wcTimers)
       IN  wcAttempts' = out.attempts /\ wcTimers' = out.timers
    /\ UNCHANGED <<wcWs, wcDisconnected, otherThanWc>>

\* the application calls wsService.disconnect(): this.ws.close(), this.ws = null
WcDisconnect ==
    /\ wcSockets' = IF wcWs # 0 /\ wcSockets[wcWs] \in {"connecting", "open"}
                    THEN [wcSockets EXCEPT ![wcWs] = "closing"] ELSE wcSockets
    /\ wcWs' = 0
    /\ wcDisconnected' = TRUE
    /\ UNCHANGED <<wcAttempts, wcTimers, otherThanWc>>

(***************************************************************************)
(* Specifications                                                          *)
(***************************************************************************)
MaxTx == 2
MaxRescanWrites == 3
TxHorizon == 1
VelMaxTx == 6
VelHorizon == 11

\* rows of transactions.csv: an old purchase of customer 1, a recent one, and
\* a large purchase of a customer id that is not in the Customer table
CsvRows ==
    {[customer_id |-> 1, product_id |-> 1, quantity |-> 1, total_amount |-> 1080,
      timestamp |-> StartTime - CsvAge, user_agent |-> Browser],
     [customer_id |-> 1, product_id |-> 1, quantity |-> 1, total_amount |-> 1080,
      timestamp |-> StartTime, user_agent |-> Browser],
     [customer_id |-> 3, product_id |-> 1, quantity |-> 1, total_amount |-> 1200000,
      timestamp |-> StartTime - CsvAge, user_agent |-> Browser]}

\* request bodies of POST /api/transactions: <<customer_id, product_id, quantity>>
PostBodies == {<<1, 1, 1>>, <<2, 1, 1>>, <<1, 2, 1>>, <<1, 2, 2>>, <<3, 1, 1>>, <<1, 3, 1>>}

InitIdle ==
    ScoreIdle /\ TxInit /\ RlInit /\ RlcInit /\ CacheInit /\ InvIdle /\ RfmIdle /\ SegIdle
    /\ ChurnIdle /\ PostsIdle /\ PredictIdle /\ SweepIdle /\ WcInit

\* scoring alone
InitScore ==
    ScoreInit /\ TxInit /\ RlInit /\ RlcInit /\ CacheInit /\ InvIdle /\ RfmIdle /\ SegIdle
    /\ ChurnIdle /\ PostsIdle /\ PredictIdle /\ SweepIdle /\ WcInit
NextScore == Score
SpecScore == InitScore /\ [][NextScore]_vars

\* the pipeline with every kind of request and fault, few rows
NextTx ==
    \/ \E b \in PostBodies, fault \in TxFaults : Post(b[1], b[2], b[3], Browser, fault, MaxTx)
    \/ \E csv \in CsvRows : ImportRow(csv, MaxTx)
    \/ \E S \in SUBSET DOMAIN transactions : AnalyzeExisting(S, MaxWrites)
    \/ Tick(TxHorizon)
    \/ \E c \in ClientIds : WsConnect(c)
    \/ \E c \in ClientIds : WsClose(c)
SpecTx == InitIdle /\ [][NextTx]_vars

\* stored transactions scored again and again by analyzeExistingTransactions
NextRescan ==
    \/ \E b \in PostBodies : Post(b[1], b[2], b[3], Browser, "none", MaxTx)
    \/ \E csv \in CsvRows : ImportRow(csv, MaxTx)
    \/ \E S \in SUBSET DOMAIN transactions : AnalyzeExisting(S, MaxRescanWrites)
    \/ Tick(TxHorizon)
SpecRescan == InitIdle /\ [][NextRescan]_vars

\* one customer buying repeatedly while time passes
NextVel ==
    \/ Post(1, 1, 1, Browser, "none", VelMaxTx)
    \/ Tick(VelHorizon)
SpecVel == InitIdle /\ [][NextVel]_vars

\* the rate limiter
NextRate ==
    \/ \E key \in RlKeys : RlRequest(key)
    \/ RlSweep
    \/ RlTick
SpecRate == InitIdle /\ [][NextRate]_vars

\* the rate limiter with and without its sweep
NextSweep ==
    \/ \E key \in RlKeys : SwRequest(key)
    \/ SwSweep
    \/ SwTick
SpecSweep == InitIdle /\ [][NextSweep]_vars

\* the rate limiter under requests that are in flight together
NextRateConc ==
    \/ \E r \in ReqIds, key \in RlKeys : RlArrive(r, key)
    \/ \E r \in ReqIds : RlRun(r)
    \/ RlcSweep
    \/ RlcTick
SpecRateConc == InitIdle /\ [][NextRateConc]_vars

\* the response cache through cacheManager
NextCache ==
    \/ \E key \in CacheKeys : CmGet(key, MaxCacheOps)
    \/ \E key \in CacheKeys, rev \in Revisions, ttl \in Ttls :
            CmSet(key, Body(key, rev), ttl, MaxCacheOps)
    \/ \E key \in CacheKeys : CmDel(key, MaxCacheOps)
    \/ CmFlush(MaxCacheOps)
    \/ CmStats(MaxCacheOps)
    \/ \E pattern \in Patterns : CmInvalidatePattern(pattern, MaxCacheOps)
    \/ CacheCheck
    \/ CacheTick
SpecCache == InitIdle /\ [][NextCache]_vars

\* requests of the dashboard served through the cache middleware, with the
\* management calls
NextCacheMw ==
    \/ \E r \in CReqIds, originalUrl \in OriginalUrls :
            CacheRequest(r, "d", originalUrl, MaxMwOps)
    \/ \E r \in CReqIds, status \in Statuses, rev \in Revisions :
            CacheRespond(r, status, Body(cReqs[r].key, rev))
    \/ CmGet(cacheKey("d", <<"/", "s">>), MaxMwOps)
    \/ CmStats(MaxMwOps)
    \/ CmFlush(MaxMwOps)
    \/ CacheTick
SpecCacheMw == InitIdle /\ [][NextCacheMw]_vars

\* reorder suggestions over every small Product table
InitInv ==
    ScoreIdle /\ TxInit /\ RlInit /\ RlcInit /\ CacheInit /\ InvInit /\ RfmIdle /\ SegIdle
    /\ ChurnIdle /\ PostsIdle /\ PredictIdle /\ SweepIdle /\ WcInit
NextInv == GenerateReorder
SpecInv == InitInv /\ [][NextInv]_vars

\* the RFM analysis over every small customer population
InitRfm ==
    ScoreIdle /\ TxInit /\ RlInit /\ RlcInit /\ CacheInit /\ InvIdle /\ RfmInit /\ SegIdle
    /\ ChurnIdle /\ PostsIdle /\ PredictIdle /\ SweepIdle /\ WcInit
NextRfm == PerformRFM
SpecRfm == InitRfm /\ [][NextRfm]_vars

\* assignSegment over every triple of scores
InitSeg ==
    ScoreIdle /\ TxInit /\ RlInit /\ RlcInit /\ CacheInit /\ InvIdle /\ RfmIdle /\ SegInit
    /\ ChurnIdle /\ PostsIdle /\ PredictIdle /\ SweepIdle /\ WcInit
NextSeg == AssignSegment
SpecSeg == InitSeg /\ [][NextSeg]_vars

\* the churn analysis over every small customer population
InitChurn ==
    ScoreIdle /\ TxInit /\ RlInit /\ RlcInit /\ CacheInit /\ InvIdle /\ RfmIdle /\ SegIdle
    /\ PostsIdle /\ PredictIdle /\ SweepIdle /\ WcInit
    /\ ChurnInit
NextChurn == IdentifyChurnRisk
SpecChurn == InitChurn /\ [][NextChurn]_vars

\* purchases whose handlers interleave at their awaits
ConcurrentBodies == {<<1, 1, 1>>, <<1, 2, 1>>, <<2, 2, 1>>, <<1, 1, 9>>}
NextPosts ==
    \/ \E r \in PostIds, b \in ConcurrentBodies : PostArrive(r, b[1], b[2], b[3])
    \/ \E r \in PostIds : PostAdvance(r)
SpecPosts == InitIdle /\ [][NextPosts]_vars

\* the stock prediction over every small product and sales history
InitPredict ==
    ScoreIdle /\ TxInit /\ RlInit /\ RlcInit /\ CacheInit /\ InvIdle /\ RfmIdle /\ SegIdle
    /\ SweepIdle /\ WcInit
    /\ ChurnIdle /\ PostsIdle /\ PredictInit
NextPredict == PredictStock
SpecPredict == InitPredict /\ [][NextPredict]_vars

\* the WebSocket client of the dashboard
NextWc ==
    \/ WcConnect
    \/ WcTimer
    \/ \E s \in SocketIds : WcOpen(s)
    \/ \E s \in SocketIds : WcClose(s)
    \/ WcDisconnect
SpecWc == InitIdle /\ [][NextWc]_vars

(***************************************************************************)
(* Properties                                                              *)
(***************************************************************************)
AmountTypes == {"amount_exceeds_limit", "amount_too_low", "amount_deviation", "high_value"}
flagsOfTypes(flags, types) == SelectSeq(flags, LAMBDA f : f.type \in types)
hasFlag(flags, type) == \E i \in DOMAIN flags : flags[i].type = type

\* C1: whatever the transaction, the customer and the velocity count, the
\* returned fraudScore lies in 0.0..1.0 and is 1.0 when the points exceed 100,
\* isSuspicious is true exactly when fraudScore >= 0.5, and severity is the
\* bucket of fraudScore (critical >= 0.8, high >= 0.6, medium >= 0.4, else low).
C1_ScoreRangeAndBuckets ==
    scoreResult.done =>
        LET a == scoreResult.analysis
        IN  /\ a.fraudScore >= 0 /\ a.fraudScore <= 100
            /\ sumScores(a.flags) > 100 => a.fraudScore = 100
            /\ sumScores(a.flags) <= 100 => a.fraudScore = sumScores(a.flags)
            /\ a.isSuspicious <=> a.fraudScore >= 50
            /\ (a.severity = "critical") <=> a.fraudScore >= 80
            /\ (a.severity = "high") <=> (a.fraudScore >= 60 /\ a.fraudScore < 80)
            /\ (a.severity = "medium") <=> (a.fraudScore >= 40 /\ a.fraudScore < 60)
            /\ (a.severity = "low") <=> a.fraudScore < 40

\* a call whose points exceed 100 has returned the saturated score
C1_Witness ==
    /\ scoreResult.done
    /\ sumScores(scoreResult.analysis.flags) > 100
    /\ scoreResult.analysis.fraudScore = 100
    /\ scoreResult.analysis.severity = "critical"

\* C2: the amount check contributes the points of exactly one tier, the first
\* matching of: amount > 10000 gives 40, amount < 0.01 gives 20, amount > 3 x
\* (total_spent / 10, or 500 without customer) gives 25, amount > 5000 gives 15,
\* otherwise nothing; an amount of 15000 contributes exactly 40.
C2_AmountTierExclusive ==
    scoreResult.done =>
        LET amount == scoreInput.transaction.total_amount
            customer == scoreInput.customer
            amountFlags == flagsOfTypes(scoreResult.analysis.flags, AmountTypes)
            deviates == IF customer.exists THEN 10 * amount > 3 * customer.total_spent
                        ELSE amount > 150000
            expected == IF amount > 1000000 THEN <<"amount_exceeds_limit", 40>>
                        ELSE IF amount < 1 THEN <<"amount_too_low", 20>>
                        ELSE IF deviates THEN <<"amount_deviation", 25>>
                        ELSE IF amount > 500000 THEN <<"high_value", 15>>
                        ELSE <<"", 0>>
        IN  /\ Len(amountFlags) <= 1
            /\ sumScores(amountFlags) = expected[2]
            /\ amountFlags # <<>> => amountFlags[1].type = expected[1]
            /\ amount = 1500000 => sumScores(amountFlags) = 40

\* an amount of 15000 that also exceeds three times the customer's average
\* has been scored with the 40 points of the limit tier alone
C2_Witness ==
    /\ scoreResult.done
    /\ scoreInput.transaction.total_amount = 1500000
    /\ scoreInput.customer.exists /\ scoreInput.customer.total_spent = 0
    /\ sumScores(flagsOfTypes(scoreResult.analysis.flags, AmountTypes)) = 40

\* the analyses made by the operation that has just finished, by transaction id
scoredByLastCall ==
    IF lastCall.op \in {"post", "import"} THEN
        IF lastCall.txid # 0 /\ lastCall.analysis.done
        THEN [i \in {lastCall.txid} |-> lastCall.analysis]
        ELSE << >>
    ELSE IF lastCall.op = "analyzeExisting" THEN lastCall.analyses
    ELSE << >>

\* the same customer's transactions in the 10-minute window that ends at
\* transaction i, transaction i included
trailingCount(txs, i) ==
    Cardinality({j \in DOMAIN txs :
                    /\ txs[j].customer_id = txs[i].customer_id
                    /\ txs[j].timestamp >= txs[i].timestamp - 10
                    /\ txs[j].timestamp <= txs[i].timestamp})

\* C3: after 5 transactions of one customer within a 9-minute span, a 6th
\* transaction that follows within the window is scored with the velocity
\* flag, and a 6th transaction 11 minutes after the first is scored without it.
C3_SixthTransactionVelocity ==
    (/\ Len(transactions) = 6
     /\ \A i \in 1..6 : transactions[i].customer_id = transactions[1].customer_id
     /\ transactions[6].writes > 0
     /\ transactions[5].timestamp - transactions[1].timestamp <= 9)
    => LET gap == transactions[6].timestamp - transactions[1].timestamp
           flagged == hasFlag(transactions[6].fraud_flags, "velocity_exceeded")
       IN  /\ gap <= 10 => flagged
           /\ gap = 11 => ~flagged

\* C4: on every scoring path the velocity check counts the customer's
\* transactions of the 10-minute window ending at the scored transaction, that
\* transaction included, and flags exactly when the count is >= 5.
C4_VelocityWindowEndsAtTransaction ==
    \A i \in DOMAIN scoredByLastCall :
        LET a == scoredByLastCall[i]
        IN  /\ a.recentTransactions = trailingCount(transactions, i)
            /\ hasFlag(a.flags, "velocity_exceeded") <=> trailingCount(transactions, i) >= 5

\* C5: on every scoring path, a transaction scored as suspicious has a fraud
\* alert with the severity of the analysis and the flags' messages joined by
\* "; ", and scoring a transaction as not suspicious creates no fraud alert.
C5_AlertIffSuspicious ==
    lastCall.threw = "none" =>
        \A i \in DOMAIN scoredByLastCall :
            LET a == scoredByLastCall[i]
                fraudAlerts == {k \in DOMAIN alerts :
                                   alerts[k].type = "fraud" /\ alerts[k].transaction_id = i}
            IN  /\ a.isSuspicious =>
                      \E k \in fraudAlerts :
                          /\ alerts[k].severity = a.severity
                          /\ alerts[k].message = joinMessages(a.flags)
                /\ ~a.isSuspicious => \A k \in fraudAlerts : k <= lastCall.alertsBefore

\* C6: a client.send that throws during the fraud-alert broadcast (or having no
\* subscriber at all) does not fail the request: the request that created the
\* transaction still decrements the stock, adds to total_spent and answers 201.
C6_BroadcastFireAndForget ==
    [][(/\ Len(transactions') = Len(transactions) + 1
        /\ lastCall'.op = "post"
        /\ lastCall'.fault = "send")
       => LET row == transactions'[lastCall'.txid]
          IN  /\ lastCall'.status = 201
              /\ products'[row.product_id].stock_quantity =
                     products[row.product_id].stock_quantity - row.quantity
              /\ customers'[row.customer_id].total_spent =
                     customers[row.customer_id].total_spent + row.total_amount]_vars

\* C7: when the count query of the velocity check fails, analyzeTransaction
\* still returns its aggregate result, without a velocity flag.
C7_VelocityFailureTolerated ==
    (lastCall.op = "post" /\ lastCall.txid # 0 /\ lastCall.fault = "velocity")
    => /\ lastCall.analysis.done
       /\ ~hasFlag(lastCall.analysis.flags, "velocity_exceeded")

writesOf(txs, i) == IF i \in DOMAIN txs THEN txs[i].writes ELSE 0

callsInWindow(i) ==
    {j \in 1..i : /\ rlLog[j].key = rlLog[i].key
                  /\ rlLog[j].time >= rlLog[i].reset - WindowMs}

RlAdmission ==
    \A i \in DOMAIN rlLog :
        /\ rlLog[i].admitted <=> Cardinality(callsInWindow(i)) <= MaxRequests
        /\ rlLog[i].status = 429 <=> ~rlLog[i].admitted

RlFrame ==
    (Len(rlLog') = Len(rlLog) + 1) =>
        \A k \in RlKeys \ {rlLog'[Len(rlLog')].key} :
            /\ k \in DOMAIN rateLimitStore' <=> k \in DOMAIN rateLimitStore
            /\ k \in DOMAIN rateLimitStore => rateLimitStore'[k] = rateLimitStore[k]

\* C9: within one window of a client exactly its first MaxRequests calls are
\* admitted and each later one is answered 429, whatever the other clients do,
\* and a call of one client leaves the entries of the other clients unchanged.
C9_FirstNAdmitted == []RlAdmission /\ [][RlFrame]_vars

\* a client has been rejected in its window, and the other client admitted after
C9_Witness ==
    \E i, j \in DOMAIN rlLog :
        /\ i < j
        /\ rlLog[i].status = 429
        /\ rlLog[j].key # rlLog[i].key /\ rlLog[j].admitted
        /\ rlLog[j].time <= rlLog[i].reset

\* C10: every rejection carries a retry-after that is strictly positive and is
\* the remaining time of the window rounded up to whole seconds.
C10_RetryAfterPositive ==
    \A i \in DOMAIN rlLog :
        rlLog[i].status = 429 =>
            /\ rlLog[i].retryAfter > 0
            /\ rlLog[i].retryAfter = ceilDiv(rlLog[i].reset - rlLog[i].time, 1000)

\* the logged calls of the client of call i that arrived in the window of call i
sameWindow(i) ==
    {j \in DOMAIN rlLog : /\ rlLog[j].key = rlLog[i].key
                          /\ rlLog[j].time >= rlLog[i].reset - WindowMs
                          /\ rlLog[j].time <= rlLog[i].reset}

\* no request of client k is between reading the entry and answering
settled(k) == \A r \in ReqIds : rlReqs[r].key = k => rlReqs[r].pc \in {"idle", "queued"}

\* C11: under every interleaving of the requests in flight, a window admits
\* exactly the first MaxRequests calls of a client, so two requests that find
\* one slot left are never both admitted, and the stored count of a client is
\* the number of its calls in the window: no increment is lost.
C11_AtomicPerKey ==
    /\ \A i \in DOMAIN rlLog :
          /\ Cardinality({j \in sameWindow(i) : rlLog[j].admitted}) <= MaxRequests
          /\ rlLog[i].admitted <=>
                Cardinality({j \in sameWindow(i) : j <= i}) <= MaxRequests
    /\ \A k \in DOMAIN rlMap :
          settled(k) =>
              rlHeap[rlMap[k]].count =
                  Cardinality({j \in DOMAIN rlLog :
                                  /\ rlLog[j].key = k
                                  /\ rlLog[j].time >= rlHeap[rlMap[k]].resetTime - WindowMs
                                  /\ rlLog[j].time <= rlHeap[rlMap[k]].resetTime})

\* two requests of one client were in flight together with one slot left: the
\* one that ran first took the slot and the other was rejected
C11_Witness ==
    \E i, j \in DOMAIN rlLog :
        /\ i < j
        /\ j \in sameWindow(i)
        /\ rlLog[j].seq < i /\ rlLog[i].seq < i
        /\ rlLog[i].seq = rlLog[j].seq
        /\ rlLog[i].admitted /\ rlLog[i].remaining = 0
        /\ rlLog[j].status = 429

\* C12: a get at the time of the last set of its key returns the value that
\* was set, and a get after the ttl of that set has elapsed signals a miss.
C12_SetThenGet ==
    (cLog.op = "get" /\ cLog.key \in DOMAIN cLastSet) =>
        LET last == cLastSet[cLog.key]
        IN  /\ last.time = cLog.at => cLog.returned = last.value
            /\ (last.ttl > 0 /\ cLog.at > last.time + last.ttl * 1000) =>
                   cLog.returned = Undefined

\* a get found its key expired: it was set with a ttl of 1 s more than 1 s ago
C12_Witness ==
    /\ cLog.op = "get"
    /\ cLog.key \in DOMAIN cLastSet
    /\ cLastSet[cLog.key].ttl = 1
    /\ cLog.at > cLastSet[cLog.key].time + 1000
    /\ cLog.returned = Undefined

\* C13: invalidatePattern(pattern) deletes exactly the keys the pattern
\* matches, leaves the entries of the other keys as they were, and returns the
\* number of keys it deleted.
C13_InvalidatesAllAndOnly ==
    [][(cLog'.n = cLog.n + 1 /\ cLog'.op = "invalidatePattern") =>
          LET gone == {k \in DOMAIN cache : regexTest(cLog'.pattern, k)}
          IN  /\ DOMAIN cache' = DOMAIN cache \ gone
              /\ \A k \in DOMAIN cache' : cache'[k] = cache[k]
              /\ cLog'.deleted = Cardinality(gone)]_vars

\* a pattern that matches inside the keys deleted some keys and left others
C13_Witness ==
    /\ cLog.op = "invalidatePattern"
    /\ cLog.pattern = <<"/", "s">>
    /\ cLog.deleted >= 1
    /\ DOMAIN cache # {}

\* a get through either entry point moves exactly the counter of its outcome
GetCounted ==
    (cLog'.n = cLog.n + 1 /\ cLog'.op \in {"get", "request"}) =>
        IF cLog'.returned # Undefined
        THEN /\ cacheStats'.hits = cacheStats.hits + 1
             /\ cacheStats'.misses = cacheStats.misses
        ELSE /\ cacheStats'.misses = cacheStats.misses + 1
             /\ cacheStats'.hits = cacheStats.hits

HitRateReported ==
    LET report == stats(cache, cacheStats)
        gets == cacheStats.hits + cacheStats.misses
    IN  /\ gets = 0 => report.hitRate.num = 0
        /\ gets > 0 => report.hitRate.num * gets = cacheStats.hits * report.hitRate.den
        /\ (cacheStats.hits = 3 /\ cacheStats.misses = 1) =>
               report.hitRate.num * 4 = report.hitRate.den * 3

\* C14: every get, by cacheManager.get or by the middleware, increments hits
\* when it returns a value and misses when it signals a miss, and stats()
\* reports hits / (hits + misses), 0 before any get.
C14_EveryGetCounted == [][GetCounted]_vars /\ []HitRateReported

\* C15: a response whose status is not 200..299 is not stored: it leaves the
\* cache and the set counter as they were, and whatever the middleware stores
\* is a response with such a status.
C15_OnlySuccessCached ==
    [][(cLog'.n = cLog.n + 1 /\ cLog'.op = "respond") =>
          /\ cLog'.stored => (cLog'.status >= 200 /\ cLog'.status < 300)
          /\ ~(cLog'.status >= 200 /\ cLog'.status < 300) =>
                 /\ cache' = cache
                 /\ cacheStats'.sets = cacheStats.sets]_vars

\* a 404 was answered for a key and the cache does not hold the key
C15_Witness ==
    /\ cLog.op = "respond"
    /\ cLog.status = 404
    /\ ~cLog.stored
    /\ cLog.key \notin DOMAIN cache

\* C16: whatever the interleaving of the requests on a key, the cache holds for
\* it the complete value of the last set of the key, and a get returns a miss
\* or a complete value computed for its key.
C16_LastWriterWins ==
    /\ \A k \in DOMAIN cache :
          /\ cache[k].v \in Bodies(k)
          /\ k \in DOMAIN cLastSet /\ cache[k].v = cLastSet[k].value
    /\ cLog.op \in {"get", "request"} =>
          (cLog.returned = Undefined \/ cLog.returned \in Bodies(cLog.key))
    /\ (cLog.op = "respond" /\ cLog.stored) => cache[cLog.key].v = cLog.value

\* two requests missed the same key together; the one answering last replaced
\* the value the other had stored
C16_Witness ==
    /\ cLog.op = "respond"
    /\ cLog.stored /\ cLog.concurrent /\ cLog.replaced
    /\ cache[cLog.key].v = cLog.value

\* the queries of the last call that went to the transaction store
salesQueriesSent == SelectSeq(invResult.queries, LAMBDA q : q.model = "Transaction")

\* C17 as stated: every call of generateReorderSuggestions sends exactly one
\* sales query to the transaction store, whatever the number of candidates.
C17_ExactlyOneSalesQuery ==
    invResult.calls = 1 => Len(salesQueriesSent) = 1

\* C17: a call sends one sales query covering all the candidate products when
\* there is at least one candidate, and no sales query when there is none;
\* never one query for each product.
C17_OneBatchedSalesQuery ==
    invResult.calls = 1 =>
        LET candidates == lowStockIds(invProducts)
        IN  IF candidates = {} THEN Len(salesQueriesSent) = 0
            ELSE /\ Len(salesQueriesSent) = 1
                 /\ salesQueriesSent[1].product_ids = candidates

\* a call over two candidate products sent a single sales query
C17_Witness ==
    /\ invResult.calls = 1
    /\ Cardinality(lowStockIds(invProducts)) = 2
    /\ Len(salesQueriesSent) = 1

\* the position in analyzeTransaction of the check that raises a flag type
checkRank(type) ==
    IF type \in AmountTypes THEN 1
    ELSE IF type = "velocity_exceeded" THEN 2
    ELSE IF type = "unusual_time" THEN 3
    ELSE IF type \in {"unknown_customer", "high_risk_customer"} THEN 4
    ELSE IF type \in {"missing_user_agent", "bot_detected"} THEN 5
    ELSE 0

\* C18: the flags of one analysis follow the order of the checks, amount,
\* velocity, time, customer risk, bot, with at most one flag for each check.
C18_FlagsInCheckOrder ==
    scoreResult.done =>
        LET flags == scoreResult.analysis.flags
        IN  /\ \A i \in DOMAIN flags : checkRank(flags[i].type) \in 1..5
            /\ \A i, j \in DOMAIN flags :
                  i < j => checkRank(flags[i].type) < checkRank(flags[j].type)

\* an analysis in which each of the five checks raised its flag
C18_Witness ==
    /\ scoreResult.done
    /\ Len(scoreResult.analysis.flags) = 5
    /\ scoreResult.analysis.flags[4].type = "high_risk_customer"
    /\ scoreResult.analysis.flags[5].type = "bot_detected"

\* C19: scoring again what was just scored gives the same result.  When two
\* runs of analyzeExistingTransactions follow each other, a transaction that
\* both re-score under the same velocity count gets the same fraudScore, flags,
\* isSuspicious and severity, and the same stored fraud_score and fraud_flags:
\* what the first run wrote is not read by the second.
C19_RescoringIdempotent ==
    [][(/\ lastCall.op = "analyzeExisting"
        /\ lastCall'.op = "analyzeExisting"
        /\ transactions' # transactions) =>
          \A i \in lastCall.processed \cap lastCall'.processed :
              lastCall'.analyses[i].recentTransactions
                      = lastCall.analyses[i].recentTransactions =>
                  /\ lastCall'.analyses[i] = lastCall.analyses[i]
                  /\ transactions'[i].fraud_score = transactions[i].fraud_score
                  /\ transactions'[i].fraud_flags = transactions[i].fraud_flags]_vars

\* the only stored transaction, flagged at its creation, has since been scored
\* twice more by analyzeExistingTransactions
C19_Witness ==
    /\ lastCall.op = "analyzeExisting"
    /\ Len(transactions) = 1
    /\ transactions[1].writes = 3
    /\ transactions[1].fraud_flags # <<>>
    /\ 1 \in lastCall.processed

\* C20: in the result of the RFM analysis every customer without a completed
\* transaction has segment Lost and RFM code 111, whoever the other customers
\* are, and is among the customers counted in the Lost segment.
C20_NoTransactionsIsLost ==
    rfmResult.done =>
        \A i \in DOMAIN rfmInput :
            Len(rfmInput[i]) = 0 =>
                /\ rfmResult.customers[i].segment = "Lost"
                /\ rfmResult.customers[i].rfmScore = "111"
                /\ "Lost" \in DOMAIN rfmResult.segments
                /\ \E j \in DOMAIN rfmResult.segments["Lost"].customers :
                       rfmResult.segments["Lost"].customers[j].customerId = i


\* the rules of the segment cascade, in priority order
cascadeRule(n, r, f, m) ==
    CASE n = 1 -> r >= 4 /\ f >= 4 /\ m >= 4
      [] n = 2 -> r >= 4 /\ f >= 3 /\ m >= 3
      [] n = 3 -> r >= 4 /\ f <= 2
      [] n = 4 -> r >= 3 /\ f >= 3 /\ m >= 3
      [] n = 5 -> r <= 2 /\ f >= 4 /\ m >= 4
      [] n = 6 -> r <= 2 /\ f >= 2 /\ m >= 2
      [] n = 7 -> r <= 2 /\ f <= 2 /\ m <= 2
      [] n = 8 -> m >= 4
      [] n = 9 -> TRUE
cascadeNames ==
    <<"Champions", "Loyal Customers", "New Customers", "Potential Loyalists", "At Risk",
      "Need Attention", "Lost", "Big Spenders", "Others">>

\* C21: for every triple of scores in 1..5 assignSegment returns the segment
\* of the first rule of the cascade that the triple satisfies, and no rule
\* before it is satisfied
C21_FirstMatchingSegment ==
    segResult # NoSegment =>
        \E n \in DOMAIN cascadeNames :
            /\ segResult = cascadeNames[n]
            /\ cascadeRule(n, segInput[1], segInput[2], segInput[3])
            /\ \A k \in 1..(n - 1) : ~cascadeRule(k, segInput[1], segInput[2], segInput[3])

\* a triple that satisfies the rule of Loyal Customers and the later rule of
\* Potential Loyalists has been assigned
C21_Witness ==
    /\ segResult = "Loyal Customers"
    /\ cascadeRule(4, segInput[1], segInput[2], segInput[3])
    /\ ~cascadeRule(1, segInput[1], segInput[2], segInput[3])

\* the tier the ratio of the time since the last purchase to the average
\* interval span / (count - 1) gives: d / (span / n) > k is d * n > k * span
tierByRatio(txs, t) ==
    LET d == t - latestStamp(txs)
        span == latestStamp(txs) - earliestStamp(txs)
        n == Len(txs) - 1
    IN  IF d * n > span * 3 THEN <<"critical", "90%">>
        ELSE IF d * n > span * 2 THEN <<"high", "70%">>
        ELSE IF 2 * d * n > span * 3 THEN <<"medium", "40%">>
        ELSE <<"none", "0%">>

churnEntriesOf(id) ==
    {k \in DOMAIN churnResult.customers : churnResult.customers[k].customer = id}

\* C22: a customer with at least 2 completed transactions is listed exactly
\* when the ratio of the days since the last purchase to the average interval
\* is above 1.5, as critical with 90% above 3, high with 70% above 2 and
\* medium with 40% otherwise
C22_TierByRatio ==
    churnResult.done =>
        \A id \in DOMAIN churnInput :
            Len(churnInput[id]) >= 2 =>
                LET tier == tierByRatio(churnInput[id], ChurnNow)
                IN  IF tier[1] = "none" THEN churnEntriesOf(id) = {}
                    ELSE \E k \in churnEntriesOf(id) :
                            /\ churnEntriesOf(id) = {k}
                            /\ churnResult.customers[k].riskLevel = tier[1]
                            /\ churnResult.customers[k].churnProbability = tier[2]

\* the units of product pid sold by the requests 1..r that were answered 201
RECURSIVE soldBy(_, _)
soldBy(r, pid) ==
    IF r = 0 THEN 0
    ELSE soldBy(r - 1, pid)
         + (IF posts[r].status = 201 /\ posts[r].product_id = pid THEN posts[r].quantity
            ELSE 0)

\* C23: once the requests that have arrived are all answered, the stock of
\* every product is its initial stock minus the quantities of the requests
\* answered 201, and it is not negative, however the handlers interleaved
C23_StockDecrementedPerSale ==
    (\A r \in PostIds : posts[r].pc \in {"idle", "done"}) =>
        \A pid \in DOMAIN products :
            /\ products[pid].stock_quantity
                   = InitProducts[pid].stock_quantity - soldBy(MaxPosts, pid)
            /\ products[pid].stock_quantity >= 0

\* the call of identity key that a step makes, if it makes one
callOf(key) ==
    /\ Len(rlLog') = Len(rlLog) + 1
    /\ rlLog'[Len(rlLog')].key = key

\* C24: a call of an identity without an entry, or arriving after the end of
\* its window, leaves the entry with count 1 and a window ending WindowMs
\* after the call; a call inside an open window adds 1 to the count and
\* leaves the end of the window as it was
C24_WindowLifecycle ==
    [][\A key \in RlKeys :
          callOf(key) =>
              IF key \notin DOMAIN rateLimitStore \/ rlNow > rateLimitStore[key].resetTime
              THEN rateLimitStore'[key] = [count |-> 1, resetTime |-> rlNow + WindowMs]
              ELSE rateLimitStore'[key] =
                       [count |-> rateLimitStore[key].count + 1,
                        resetTime |-> rateLimitStore[key].resetTime]]_vars

\* an identity has called in one window, then opened a later window with a
\* call and called again inside it
C24_Witness ==
    \E i, j, k \in DOMAIN rlLog :
        /\ i < j /\ j < k
        /\ rlLog[i].key = rlLog[j].key /\ rlLog[j].key = rlLog[k].key
        /\ rlLog[j].reset = rlLog[j].time + WindowMs
        /\ rlLog[j].reset > rlLog[i].reset
        /\ rlLog[j].remaining = MaxRequests - 1
        /\ rlLog[k].time > rlLog[j].time
        /\ rlLog[k].reset = rlLog[j].reset
        /\ rlLog[k].remaining = MaxRequests - 2

criticalDays == {d \in DOMAIN predResult.predictions :
                    predResult.predictions[d].stockoutRisk = "critical"}

\* C25: daysUntilStockout is the first day whose predictedStock is 0 and that
\* day is the first one classified critical; it is null exactly when no day
\* is classified critical; predictedStock never rises and is never negative
C25_StockoutIsFirstCriticalDay ==
    (predResult.done /\ ~predResult.null) =>
        LET p == predResult.predictions
            days == predResult.analytics.daysUntilStockout
        IN  /\ (days = NoDays) <=> (criticalDays = {})
            /\ days # NoDays =>
                   /\ p[days].predictedStock = 0
                   /\ \A e \in 1..(days - 1) : p[e].predictedStock > 0
                   /\ days \in criticalDays
                   /\ \A e \in 1..(days - 1) : e \notin criticalDays
            /\ \A d \in DOMAIN p : p[d].predictedStock >= 0
            /\ \A d \in DOMAIN p : d > 1 => p[d].predictedStock <= p[d - 1].predictedStock

urgencyRank(u) == CASE u = "critical" -> 0 [] u = "high" -> 1 [] u = "medium" -> 2

\* lead time of the supplier, 7 without one, plus the 3 days of safety stock
coverDays(product) ==
    (IF product.average_delivery_days = 0 THEN 7 ELSE product.average_delivery_days) + 3

\* C26: a product with stock <= 50 is suggested exactly when its stock is at
\* most ceil(avgDailySales * (lead time + 3)), that is when stock - 1 is below
\* totalSold / 30 * (lead time + 3); its urgency is critical with stock 0,
\* else high with stock <= avgDailySales * 3, else medium; and the list is in
\* the order critical, high, medium
C26_ReorderSuggestions ==
    invResult.calls = 1 =>
        LET out == invResult.report.suggestions
            sold(id) == IF id \in DOMAIN invSales THEN invSales[id] ELSE 0
        IN  /\ \A id \in DOMAIN invProducts :
                   LET stock == invProducts[id].stock_quantity
                       listed == {k \in DOMAIN out : out[k].id = id}
                   IN  IF stock <= 50
                          /\ (stock - 1) * 30 < sold(id) * coverDays(invProducts[id])
                       THEN \E k \in listed :
                                /\ listed = {k}
                                /\ out[k].urgency =
                                       IF stock = 0 THEN "critical"
                                       ELSE IF stock * 30 <= sold(id) * 3 THEN "high"
                                       ELSE "medium"
                       ELSE listed = {}
            /\ \A i, j \in DOMAIN out :
                   i < j => urgencyRank(out[i].urgency) <= urgencyRank(out[j].urgency)

\* two products were suggested and the critical one, read second, is listed
\* before one that is not critical
C26_Witness ==
    /\ invResult.calls = 1
    /\ Len(invResult.report.suggestions) = 2
    /\ invResult.report.suggestions[1].id = 2
    /\ invResult.report.suggestions[1].urgency = "critical"
    /\ invResult.report.suggestions[2].urgency \in {"high", "medium"}

\* C27: a request that hits is never answered with a value stored by a
\* request that missed before a flush or invalidation dropped its key and
\* answered after it
C27_NoPreFlushValueServed ==
    (cLog.op = "request" /\ cLog.returned # Undefined) =>
        ~(cLog.key \in DOMAIN cLastSet /\ cLastSet[cLog.key].preFlush)

\* what a step deletes from the store
deletedKeys == DOMAIN rateLimitStore \ DOMAIN rateLimitStore'

\* C28: the sweep deletes only entries whose window has ended, and every
\* request is answered (admitted or rejected, remaining quota, reset time)
\* exactly as by a limiter that receives the same requests and is never swept
C28_SweepChangesNoDecision ==
    /\ [](rlLog = rlUnsweptLog)
    /\ [][\A k \in deletedKeys : rlNow > rateLimitStore[k].resetTime]_vars

\* an entry was swept and its identity has called again since
C28_Witness ==
    \E e \in rlSwept, j \in DOMAIN rlLog :
        /\ rlLog[j].key = e.key
        /\ rlLog[j].time > e.resetTime
        /\ rlLog[j].reset = rlLog[j].time + WindowMs
        /\ e.key \in DOMAIN rlUnswept

\* the units of product pid, and the amount of customer cid, of the rows that
\* POST /api/transactions created among the first n rows and that are completed
RECURSIVE soldInRows(_, _)
soldInRows(n, pid) ==
    IF n = 0 THEN 0
    ELSE soldInRows(n - 1, pid)
         + (IF /\ transactions[n].origin = "post" /\ transactions[n].status = "completed"
               /\ transactions[n].product_id = pid
            THEN transactions[n].quantity ELSE 0)
RECURSIVE spentInRows(_, _)
spentInRows(n, cid) ==
    IF n = 0 THEN 0
    ELSE spentInRows(n - 1, cid)
         + (IF /\ transactions[n].origin = "post" /\ transactions[n].status = "completed"
               /\ transactions[n].customer_id = cid
            THEN transactions[n].total_amount ELSE 0)

\* C29: between requests, the stock of every product is its initial stock
\* minus the quantities of the completed rows that POST created for it, and
\* the total_spent of every customer its initial value plus their amounts:
\* no such row is persisted without both updates
C29_RowsHaveTheirBookkeeping ==
    /\ \A pid \in DOMAIN products :
           products[pid].stock_quantity
               = InitProducts[pid].stock_quantity - soldInRows(Len(transactions), pid)
    /\ \A cid \in DOMAIN customers :
           customers[cid].total_spent
               = InitCustomers[cid].total_spent + spentInRows(Len(transactions), cid)

\* C30: while disconnect() is the last call of the application no socket is
\* created; reconnectAttempts never exceeds maxReconnectAttempts, a step
\* schedules a reconnection only by counting it, and reconnectAttempts is 0
\* after every step in which a socket opens
C30_ReconnectPolicy ==
    /\ [](wcAttempts <= maxReconnectAttempts)
    /\ [][/\ (wcDisconnected /\ wcDisconnected') => created(wcSockets') = created(wcSockets)
          /\ wcTimers' > wcTimers => wcAttempts' = wcAttempts + 1
          /\ (\E s \in SocketIds : wcSockets[s] # "open" /\ wcSockets'[s] = "open")
                 => wcAttempts' = 0]_vars
====
